---- MODULE Spec2Model ----
(***************************************************************************)
(* A model of rana/ask-go: the session document (turn parsing, mutation,   *)
(* streaming persistence of the AI turn) and the reference expander        *)
(* (directory walker, binary detection).                                   *)
(*                                                                         *)
(* Text is modelled byte by byte: a Go string is a sequence of one-        *)
(* character strings, and an offset is 0-based as in the Go code           *)
(* (Go's s[a:b] is SubSeq(s, a+1, b)).                                      *)
(***************************************************************************)
EXTENDS Integers, Sequences, FiniteSets, TLC

(***************************************************************************)
(* Bounds of the model.                                                    *)
(***************************************************************************)
\* the number of stream events one run receives before the stream ends
MaxEvents == 3

\* the length of a file content WriteAtomic replaces or writes
MaxFileLen == 2

\* the turn numbers the document mutators are called with
MaxTurn == 3

\* the depth limits the expansion policy is given: 1..MaxDepthBound
MaxDepthBound == 3

\* lines of a parsed document
MaxDocLines == 3

\* chat runs of a session
MaxRuns == 2

\* the largest depth limit the configuration command accepts
MaxDepthLimit == 10

(***************************************************************************)
(* The Go strings package, on sequences of characters.                     *)
(***************************************************************************)
\* the ASCII white space strings.TrimSpace removes
WhiteSpace == {" ", "\n", "\t", "\r"}

\* the backtick byte (0x60) and the zero byte, which have no string literal
BQ == "BACKTICK"

NUL == "NUL"

DigitChars == <<"0", "1", "2", "3", "4", "5", "6", "7", "8", "9">>

IsDigit(c) == \E i \in 1..10 : DigitChars[i] = c

DigitValue(c) == (CHOOSE i \in 1..10 : DigitChars[i] = c) - 1

MinOf(S) == CHOOSE x \in S : \A y \in S : x <= y

MaxOf(S) == CHOOSE x \in S : \A y \in S : x >= y

RECURSIVE TrimLeftSpace(_)
TrimLeftSpace(s) ==
    IF s # <<>> /\ Head(s) \in WhiteSpace THEN TrimLeftSpace(Tail(s)) ELSE s

RECURSIVE TrimRightSpace(_)
TrimRightSpace(s) ==
    IF s # <<>> /\ s[Len(s)] \in WhiteSpace
    THEN TrimRightSpace(SubSeq(s, 1, Len(s) - 1))
    ELSE s

TrimSpace(s) == TrimRightSpace(TrimLeftSpace(s))

HasPrefix(s, p) == Len(s) >= Len(p) /\ SubSeq(s, 1, Len(p)) = p

HasSuffix(s, p) == Len(s) >= Len(p) /\ SubSeq(s, Len(s) - Len(p) + 1, Len(s)) = p

TrimPrefix(s, p) == IF HasPrefix(s, p) THEN SubSeq(s, Len(p) + 1, Len(s)) ELSE s

TrimSuffix(s, p) == IF HasSuffix(s, p) THEN SubSeq(s, 1, Len(s) - Len(p)) ELSE s

\* the 0-based offsets at which sub occurs in s
Occurrences(s, sub) ==
    {i \in 0..(Len(s) - Len(sub)) : SubSeq(s, i + 1, i + Len(sub)) = sub}

\* strings.Index: the first offset of sub in s, -1 when there is none
Index(s, sub) ==
    IF Occurrences(s, sub) = {} THEN -1 ELSE MinOf(Occurrences(s, sub))

\* strings.LastIndex
LastIndex(s, sub) ==
    IF Occurrences(s, sub) = {} THEN -1 ELSE MaxOf(Occurrences(s, sub))

Contains(s, sub) == Occurrences(s, sub) # {}

\* Go's s[from:]
From(s, from) == SubSeq(s, from + 1, Len(s))

\* Go's s[:to]
UpTo(s, to) == SubSeq(s, 1, to)

\* fmt.Sprintf("%d", n) for n >= 0
RECURSIVE Itoa(_)
Itoa(n) ==
    IF n < 10
    THEN <<DigitChars[n + 1]>>
    ELSE Itoa(n \div 10) \o <<DigitChars[(n % 10) + 1]>>

RECURSIVE Flatten(_)
Flatten(ss) == IF ss = <<>> THEN <<>> ELSE Head(ss) \o Flatten(Tail(ss))

(***************************************************************************)
(* The sort, strings and path/filepath functions the expander uses.        *)
(***************************************************************************)
\* the bytes of the model in increasing byte value
ByteOrder ==
    <<NUL, "\t", "\n", "\r", " ", "!", "\"", "#", "$", "%", "&", "'", "(",
      ")", "*", "+", ",", "-", ".", "/", "0", "1", "2", "3", "4", "5", "6",
      "7", "8", "9", ":", ";", "<", "=", ">", "?", "@", "A", "B", "C", "D",
      "E", "F", "G", "H", "I", "J", "K", "L", "M", "N", "O", "P", "Q", "R",
      "S", "T", "U", "V", "W", "X", "Y", "Z", "[", "\\", "]", "^", "_", BQ,
      "a", "b", "c", "d", "e", "f", "g", "h", "i", "j", "k", "l", "m", "n",
      "o", "p", "q", "r", "s", "t", "u", "v", "w", "x", "y", "z", "{", "|",
      "}", "~">>

ByteRank(c) == CHOOSE i \in 1..Len(ByteOrder) : ByteOrder[i] = c

\* Go's s < t on strings: byte-wise lexicographic
RECURSIVE StringLess(_, _)
StringLess(s, t) ==
    IF t = <<>> THEN FALSE
    ELSE IF s = <<>> THEN TRUE
    ELSE IF Head(s) = Head(t) THEN StringLess(Tail(s), Tail(t))
    ELSE ByteRank(Head(s)) < ByteRank(Head(t))

\* sort.Strings, from the set of the strings to sort (they are distinct
\* paths) to the sorted list
RECURSIVE SortStrings(_)
SortStrings(S) ==
    IF S = {} THEN <<>>
    ELSE LET least == CHOOSE x \in S : \A y \in S \ {x} : StringLess(x, y)
         IN  <<least>> \o SortStrings(S \ {least})

UpperChars ==
    <<"A", "B", "C", "D", "E", "F", "G", "H", "I", "J", "K", "L", "M", 
      "N", "O", "P", "Q", "R", "S", "T", "U", "V", "W", "X", "Y", "Z">>

LowerChars ==
    <<"a", "b", "c", "d", "e", "f", "g", "h", "i", "j", "k", "l", "m", 
      "n", "o", "p", "q", "r", "s", "t", "u", "v", "w", "x", "y", "z">>

ToLowerByte(c) ==
    IF \E i \in 1..26 : UpperChars[i] = c
    THEN LowerChars[CHOOSE i \in 1..26 : UpperChars[i] = c]
    ELSE c

ToLower(s) == [i \in 1..Len(s) |-> ToLowerByte(s[i])]

\* strings.EqualFold on ASCII text
EqualFold(s, t) == ToLower(s) = ToLower(t)

\* strings.Split(s, sep) for a one-byte separator
RECURSIVE Split(_, _)
Split(s, sep) ==
    LET i == Index(s, <<sep>>)
    IN  IF i = -1 THEN <<s>> ELSE <<UpTo(s, i)>> \o Split(From(s, i + 1), sep)

\* strings.Join
RECURSIVE Join(_, _)
Join(ss, sep) ==
    IF ss = <<>> THEN <<>>
    ELSE IF Len(ss) = 1 THEN ss[1]
    ELSE ss[1] \o sep \o Join(Tail(ss), sep)

\* strings.Replace(s, old, new, 1) for a non-empty old
ReplaceFirst(s, old, new) ==
    LET i == Index(s, old)
    IN  IF i = -1 THEN s ELSE UpTo(s, i) \o new \o From(s, i + Len(old))

\* strings.ReplaceAll(s, old, new) for a non-empty old
RECURSIVE ReplaceAll(_, _, _)
ReplaceAll(s, old, new) ==
    LET i == Index(s, old)
    IN  IF i = -1 THEN s
        ELSE UpTo(s, i) \o new \o ReplaceAll(From(s, i + Len(old)), old, new)

\* strings.TrimLeft(s, cutset)
RECURSIVE TrimLeft(_, _)
TrimLeft(s, cutset) ==
    IF s # <<>> /\ Head(s) \in cutset THEN TrimLeft(Tail(s), cutset) ELSE s

\* filepath.Base of a clean, non-empty relative path
Base(path) == From(path, LastIndex(path, <<"/">>) + 1)

\* filepath.Ext: the suffix of the last path element from its last dot
Ext(path) ==
    LET base == Base(path)
        dot == LastIndex(base, <<".">>)
    IN  IF dot = -1 THEN <<>> ELSE From(base, dot)

\* filepath.Join(dir, name) for a clean dir and a plain name
JoinPath(dir, name) == IF dir = <<>> THEN name ELSE dir \o <<"/">> \o name

\* filepath.Match for patterns of literal bytes, * and ? (the patterns of
\* the configuration use no character class and no escape)
RECURSIVE Match(_, _)
Match(pattern, name) ==
    IF pattern = <<>> THEN name = <<>>
    ELSE IF Head(pattern) = "*"
    THEN \E k \in 0..Len(name) :
            /\ \A j \in 1..k : name[j] # "/"
            /\ Match(Tail(pattern), From(name, k))
    ELSE IF name = <<>> THEN FALSE
    ELSE IF Head(pattern) = "?"
    THEN Head(name) # "/" /\ Match(Tail(pattern), Tail(name))
    ELSE Head(pattern) = Head(name) /\ Match(Tail(pattern), Tail(name))

(***************************************************************************)
(* Content filter.                                                         *)
(***************************************************************************)
\* Defaults().Filter.Header.Remove, in order
DefaultRemove ==
    <<
      [Start |-> <<"/", "*">>, End |-> <<"*", "/">>],
      [Start |-> <<"/", "*", "*">>, End |-> <<"*", "/">>],
      [Start |-> <<"<", "!", "-", "-">>, End |-> <<"-", "-", ">">>],
      [Start |-> <<"\"", "\"", "\"">>, End |-> <<"\"", "\"", "\"">>],
      [Start |-> <<"'", "'", "'">>, End |-> <<"'", "'", "'">>],
      [Start |-> <<"(", "*">>, End |-> <<"*", ")">>],
      [Start |-> <<"{", "-">>, End |-> <<"-", "}">>],
      [Start |-> <<"=", "b", "e", "g", "i", "n">>, End |-> <<"=", "e", "n", "d">>]
    >>

\* Defaults().Filter.Header.Preserve
DefaultPreserve ==
    {
      <<"/", "/", "g", "o", ":">>,
      <<"/", "/", " ", "+", "b", "u", "i", "l", "d">>,
      <<"/", "/", "n", "o", "l", "i", "n", "t">>,
      <<"/", "/", "l", "i", "n", "t", ":">>,
      <<"#", "!">>,
      <<"/", "/", "/", "<">>,
      <<"/", "/", "g", "o", ":", "g", "e", "n", "e", "r", "a", "t", "e">>,
      <<"#", " ", "-", "*", "-", " ", "c", "o", "d", "i", "n", "g">>,
      <<"#", " ", "f", "r", "o", "z", "e", "n", "_", "s", "t", "r", "i", "n",
        "g", "_", "l", "i", "t", "e", "r", "a", "l">>,
      <<"\"", "u", "s", "e", " ", "s", "t", "r", "i", "c", "t", "\"">>,
      <<"'", "u", "s", "e", " ", "s", "t", "r", "i", "c", "t", "'">>
    }

RECURSIVE stripHeader(_, _)
RECURSIVE stripHeaderFrom(_, _, _)
\* the loop over cfg.Remove, from its k-th pattern on
stripHeaderFrom(content, cfg, k) ==
    IF k > Len(cfg.Remove) THEN content
    ELSE LET pattern == cfg.Remove[k]
             trimmed == TrimSpace(content)
             endIdx == Index(content, pattern.End)
             afterBlock == endIdx + Len(pattern.End)
             remaining == From(content, afterBlock)
             result == TrimLeft(remaining, {" ", "\t", "\n", "\r"})
         IN  IF HasPrefix(trimmed, pattern.Start) /\ endIdx # -1
             THEN IF afterBlock >= Len(content) THEN <<>>
                  ELSE IF result # <<>> /\ result # remaining
                  THEN stripHeader(result, cfg)
                  ELSE result
             ELSE stripHeaderFrom(content, cfg, k + 1)

stripHeader(content, cfg) ==
    IF \E preserve \in cfg.Preserve : HasPrefix(TrimSpace(content), preserve)
    THEN content
    ELSE stripHeaderFrom(content, cfg, 1)

\* the block comment a trimmed line opens, <<>> when it opens none
BlockEndOf(trimmed) ==
    IF HasPrefix(trimmed, <<"/", "*">>) THEN <<"*", "/">>
    ELSE IF HasPrefix(trimmed, <<"<", "!", "-", "-">>) THEN <<"-", "-", ">">>
    ELSE IF HasPrefix(trimmed, <<"\"", "\"", "\"">>) THEN <<"\"", "\"", "\"">>
    ELSE IF HasPrefix(trimmed, <<"'", "'", "'">>) THEN <<"'", "'", "'">>
    ELSE <<>>

IsLineComment(trimmed) ==
    \/ HasPrefix(trimmed, <<"/", "/">>)
    \/ HasPrefix(trimmed, <<"#">>)
    \/ HasPrefix(trimmed, <<"-", "-">>)

\* the loop of stripAllComments over the lines, from line i on
RECURSIVE stripCommentLines(_, _, _, _)
stripCommentLines(lines, i, inBlockComment, blockEnd) ==
    IF i > Len(lines) THEN <<>>
    ELSE LET line == lines[i]
             trimmed == TrimSpace(line)
         IN  IF ~inBlockComment /\ BlockEndOf(trimmed) # <<>>
             THEN stripCommentLines(lines, i + 1, TRUE, BlockEndOf(trimmed))
             ELSE IF inBlockComment
             THEN stripCommentLines(lines, i + 1, ~Contains(line, blockEnd), blockEnd)
             ELSE IF IsLineComment(trimmed)
             THEN stripCommentLines(lines, i + 1, FALSE, blockEnd)
             ELSE <<line>> \o stripCommentLines(lines, i + 1, FALSE, blockEnd)

\* for strings.Contains(cleaned, "\n\n\n") { cleaned = ReplaceAll(...) }
RECURSIVE collapseBlankLines(_)
collapseBlankLines(cleaned) ==
    IF Contains(cleaned, <<"\n", "\n", "\n">>)
    THEN collapseBlankLines(ReplaceAll(cleaned, <<"\n", "\n", "\n">>, <<"\n", "\n">>))
    ELSE cleaned

stripAllComments(content) ==
    TrimSpace(collapseBlankLines(
        Join(stripCommentLines(Split(content, "\n"), 1, FALSE, <<>>), <<"\n">>)))

FilterContent(content, filePath, filterCfg) ==
    IF ~filterCfg.Enabled THEN content
    ELSE LET afterHeader == IF filterCfg.StripHeaders
                            THEN stripHeader(content, filterCfg.Header)
                            ELSE content
         IN  IF filterCfg.StripAllComments
             THEN stripAllComments(afterHeader)
             ELSE afterHeader

(***************************************************************************)
(* Configuration.                                                          *)
(***************************************************************************)
DefaultMaxDepth == 3

DefaultIncludeExtensions ==
    { <<"g", "o">>,
      <<"r", "s">>,
      <<"p", "y">>,
      <<"j", "s">>,
      <<"t", "s">>,
      <<"j", "s", "x">>,
      <<"t", "s", "x">>,
      <<"j", "a", "v", "a">>,
      <<"c", "p", "p">>,
      <<"c">>,
      <<"h">>,
      <<"h", "p", "p">>,
      <<"c", "s">>,
      <<"r", "b">>,
      <<"p", "h", "p">>,
      <<"s", "w", "i", "f", "t">>,
      <<"k", "t">>,
      <<"s", "c", "a", "l", "a">>,
      <<"s", "h">>,
      <<"b", "a", "s", "h">>,
      <<"z", "s", "h">>,
      <<"f", "i", "s", "h">>,
      <<"p", "s", "1">>,
      <<"m", "d">>,
      <<"t", "x", "t">>,
      <<"j", "s", "o", "n">>,
      <<"y", "a", "m", "l">>,
      <<"y", "m", "l">>,
      <<"t", "o", "m", "l">>,
      <<"x", "m", "l">>,
      <<"h", "t", "m", "l">>,
      <<"c", "s", "s">>,
      <<"s", "c", "s", "s">>,
      <<"s", "a", "s", "s">>,
      <<"s", "q", "l">>,
      <<"p", "r", "o", "t", "o">> }

DefaultIncludePatterns ==
    { <<"M", "a", "k", "e", "f", "i", "l", "e">>,
      <<"D", "o", "c", "k", "e", "r", "f", "i", "l", "e">>,
      <<".", "g", "i", "t", "i", "g", "n", "o", "r", "e">>,
      <<".", "e", "n", "v", ".", "e", "x", "a", "m", "p", "l", "e">>,
      <<"R", "E", "A", "D", "M", "E">>,
      <<"L", "I", "C", "E", "N", "S", "E">> }

DefaultExcludePatterns ==
    { <<"*", "_", "t", "e", "s", "t", ".", "g", "o">>,
      <<"*", ".", "p", "b", ".", "g", "o">>,
      <<"*", "_", "g", "e", "n", "e", "r", "a", "t", "e", "d", ".", "g", "o">>,
      <<"*", ".", "m", "i", "n", ".", "j", "s">>,
      <<"*", ".", "m", "i", "n", ".", "c", "s", "s">>,
      <<"*", ".", "m", "a", "p">> }

DefaultExcludeDirectories ==
    { <<"v", "e", "n", "d", "o", "r">>,
      <<"n", "o", "d", "e", "_", "m", "o", "d", "u", "l", "e", "s">>,
      <<".", "g", "i", "t">>,
      <<"d", "i", "s", "t">>,
      <<"b", "u", "i", "l", "d">>,
      <<"t", "a", "r", "g", "e", "t">>,
      <<"b", "i", "n">>,
      <<"o", "b", "j">>,
      <<".", "i", "d", "e", "a">>,
      <<".", "v", "s", "c", "o", "d", "e">>,
      <<"_", "_", "p", "y", "c", "a", "c", "h", "e", "_", "_">>,
      <<".", "p", "y", "t", "e", "s", "t", "_", "c", "a", "c", "h", "e">>,
      <<".", "n", "e", "x", "t">>,
      <<".", "n", "u", "x", "t">>,
      <<".", "o", "u", "t", "p", "u", "t">> }

\* config.Defaults(): the expansion and filter sections
Defaults ==
    [Expand |->
        [MaxDepth |-> DefaultMaxDepth,
         Recursive |-> FALSE,
         Include |-> [Extensions |-> DefaultIncludeExtensions,
                      Patterns |-> DefaultIncludePatterns],
         Exclude |-> [Patterns |-> DefaultExcludePatterns,
                      Directories |-> DefaultExcludeDirectories]],
     Filter |->
        [Enabled |-> TRUE,
         StripHeaders |-> TRUE,
         StripAllComments |-> FALSE,
         Header |-> [Remove |-> DefaultRemove, Preserve |-> DefaultPreserve]]]

(***************************************************************************)
(* Reference expander: file classification.                                *)
(***************************************************************************)
isBinaryNever(content) == FALSE

isBinary(content) == \E i \in 1..Len(content) : content[i] = NUL

isExcludedDirectory(dirName, expandCfg) ==
    \E excludeDir \in expandCfg.Exclude.Directories : dirName = excludeDir

\* the variant that leaves the exclusion of directories to the pruning
shouldIncludeFileUnchecked(fileName, filePath, expandCfg) ==
    /\ ~\E pattern \in expandCfg.Exclude.Patterns :
            Match(pattern, filePath) \/ Match(pattern, fileName)
    /\ \/ /\ TrimPrefix(Ext(fileName), <<".">>) # <<>>
          /\ \E includeExt \in expandCfg.Include.Extensions :
                EqualFold(TrimPrefix(Ext(fileName), <<".">>), includeExt)
       \/ \E pattern \in expandCfg.Include.Patterns : Match(pattern, fileName)

shouldIncludeFileIgnoringGlobs(fileName, filePath, expandCfg) ==
    LET pathParts == Split(filePath, "/")
        ext == TrimPrefix(Ext(fileName), <<".">>)
    IN  IF \E excludeDir \in expandCfg.Exclude.Directories :
              \E k \in 1..Len(pathParts) : pathParts[k] = excludeDir
        THEN FALSE
        ELSE IF ext # <<>> /\ \E includeExt \in expandCfg.Include.Extensions :
                                 EqualFold(ext, includeExt)
        THEN TRUE
        ELSE \E pattern \in expandCfg.Include.Patterns : Match(pattern, fileName)

shouldIncludeFile(fileName, filePath, expandCfg) ==
    LET relativePath == filePath
        pathParts == Split(relativePath, "/")
        ext == TrimPrefix(Ext(fileName), <<".">>)
    IN  IF \E excludeDir \in expandCfg.Exclude.Directories :
              \E k \in 1..Len(pathParts) : pathParts[k] = excludeDir
        THEN FALSE
        ELSE IF \E pattern \in expandCfg.Exclude.Patterns :
                   Match(pattern, relativePath) \/ Match(pattern, fileName)
        THEN FALSE
        ELSE IF ext # <<>> /\ \E includeExt \in expandCfg.Include.Extensions :
                                 EqualFold(ext, includeExt)
        THEN TRUE
        ELSE \E pattern \in expandCfg.Include.Patterns : Match(pattern, fileName)

\* what enry.GetLanguageByFilename and enry.GetLanguageByExtension answer
\* for the names of the model (<<>> for a name the library does not know)
EnryByFilename ==
    {
      <<<<"M", "a", "k", "e", "f", "i", "l", "e">>, <<"M", "a", "k", "e", "f", "i", "l", "e">>>>,
      <<<<"D", "o", "c", "k", "e", "r", "f", "i", "l", "e">>, <<"D", "o", "c", "k", "e", "r", "f", "i", "l", "e">>>> }

EnryByExtension ==
    {
      <<<<".", "g", "o">>, <<"G", "o">>>>,
      <<<<".", "t", "x", "t">>, <<"T", "e", "x", "t">>>>,
      <<<<".", "m", "d">>, <<"M", "a", "r", "k", "d", "o", "w", "n">>>>,
      <<<<".", "s", "h">>, <<"S", "h", "e", "l", "l">>>>,
      <<<<".", "h">>, <<"C">>>>,
      <<<<".", "c", "s">>, <<"C", "#">>>> }

Lookup(table, key) ==
    IF \E e \in table : e[1] = key
    THEN (CHOOSE e \in table : e[1] = key)[2]
    ELSE <<>>

\* the switch of normalizeLanguageHint
HintSwitch ==
    {
      <<<<"m", "i", "n", "i", "y", "a", "m", "l">>,
        <<"y", "a", "m", "l">>>>,
      <<<<"y", "m", "l">>,
        <<"y", "a", "m", "l">>>>,
      <<<<"s", "h", "e", "l", "l">>,
        <<"b", "a", "s", "h">>>>,
      <<<<"c", "+", "+">>,
        <<"c", "p", "p">>>>,
      <<<<"c", "#">>,
        <<"c", "s", "h", "a", "r", "p">>>>,
      <<<<"f", "#">>,
        <<"f", "s", "h", "a", "r", "p">>>>,
      <<<<"o", "b", "j", "e", "c", "t", "i", "v", "e", "-", "c">>,
        <<"o", "b", "j", "c">>>>,
      <<<<"o", "b", "j", "e", "c", "t", "i", "v", "e", "-", "c", "+", "+">>,
        <<"o", "b", "j", "c", "p", "p">>>>,
      <<<<"r", "e", "s", "t", "r", "u", "c", "t", "u", "r", "e", "d", "t",
          "e", "x", "t">>,
        <<"r", "s", "t">>>>,
      <<<<"s", "q", "l", "p", "l">>,
        <<"s", "q", "l">>>>,
      <<<<"p", "l", "s", "q", "l">>,
        <<"s", "q", "l">>>>,
      <<<<"t", "-", "s", "q", "l">>,
        <<"s", "q", "l">>>>,
      <<<<"v", "i", "m", "l">>,
        <<"v", "i", "m">>>>,
      <<<<"d", "o", "c", "k", "e", "r">>,
        <<"d", "o", "c", "k", "e", "r", "f", "i", "l", "e">>>>,
      <<<<"m", "a", "r", "k", "u", "p">>,
        <<"h", "t", "m", "l">>>>,
      <<<<"h", "t", "m", "l", "+", "e", "r", "b">>,
        <<"h", "t", "m", "l">>>>,
      <<<<"g", "o", "l", "a", "n", "g">>,
        <<"g", "o">>>>,
      <<<<"r", "u", "s", "t", "l", "a", "n", "g">>,
        <<"r", "u", "s", "t">>>> }

normalizeLanguageHint(lang) ==
    LET normalized == ToLower(lang)
    IN  IF \E e \in HintSwitch : e[1] = normalized
        THEN Lookup(HintSwitch, normalized)
        ELSE ReplaceAll(ReplaceAll(ReplaceAll(normalized, <<" ">>, <<>>),
                                   <<"+">>, <<"p", "l", "u", "s">>),
                        <<"#">>, <<"s", "h", "a", "r", "p">>)

getLanguageHint(filePath) ==
    LET ext == Ext(filePath)
    IN  IF Lookup(EnryByFilename, Base(filePath)) # <<>>
        THEN normalizeLanguageHint(Lookup(EnryByFilename, Base(filePath)))
        ELSE IF ext # <<>> /\ Lookup(EnryByExtension, ext) # <<>>
        THEN normalizeLanguageHint(Lookup(EnryByExtension, ext))
        ELSE IF ext # <<>> THEN TrimPrefix(ext, <<".">>)
        ELSE <<"t", "e", "x", "t">>

(***************************************************************************)
(* Turn parser.                                                            *)
(***************************************************************************)
RECURSIVE DecimalValue(_)
DecimalValue(s) ==
    IF s = <<>> THEN 0
    ELSE 10 * DecimalValue(SubSeq(s, 1, Len(s) - 1)) + DigitValue(s[Len(s)])

\* fmt.Sscanf(s, "%d", &n) on the digits the pattern captured
parseIntOrZero(s) ==
    IF s # <<>> /\ \A i \in 1..Len(s) : IsDigit(s[i]) THEN DecimalValue(s) ELSE 0

RoleHuman == <<"H", "u", "m", "a", "n">>

RoleAI == <<"A", "I">>

\* the end (exclusive, 0-based) of the longest run of digits starting at offset i
RECURSIVE DigitRunEnd(_, _)
DigitRunEnd(s, i) ==
    IF i < Len(s) /\ IsDigit(s[i + 1]) THEN DigitRunEnd(s, i + 1) ELSE i

NoMatch == [found |-> FALSE]

\* one match of the pattern  # \[(\d+)\] (Human|AI)  starting at offset i:
\* start, end, the captured number span and the captured role
TurnHeaderAt(s, i) ==
    IF ~HasPrefix(From(s, i), <<"#", " ", "[">>) THEN NoMatch
    ELSE LET ds == i + 3
             de == DigitRunEnd(s, ds)
             rest == From(s, de)
         IN  IF de = ds \/ ~HasPrefix(rest, <<"]", " ">>) THEN NoMatch
             ELSE IF HasPrefix(From(rest, 2), RoleHuman)
                  THEN [found |-> TRUE, start |-> i, end |-> de + 2 + Len(RoleHuman),
                        numStart |-> ds, numEnd |-> de, role |-> RoleHuman]
             ELSE IF HasPrefix(From(rest, 2), RoleAI)
                  THEN [found |-> TRUE, start |-> i, end |-> de + 2 + Len(RoleAI),
                        numStart |-> ds, numEnd |-> de, role |-> RoleAI]
             ELSE NoMatch

\* pattern.FindAllStringSubmatchIndex(content, -1): the successive
\* non-overlapping matches, leftmost first, searching on from offset pos
RECURSIVE FindAllTurnHeaders(_, _)
FindAllTurnHeaders(s, pos) ==
    LET starts == {i \in pos..(Len(s) - 1) : TurnHeaderAt(s, i).found}
        rest(m) == <<m>> \o FindAllTurnHeaders(s, m.end)
    IN  IF starts = {} THEN <<>> ELSE rest(TurnHeaderAt(s, MinOf(starts)))

FenceOpenNL == <<BQ, BQ, BQ, BQ, "m", "a", "r", "k", "d", "o", "w", "n", "\n">>

FenceOpen == <<BQ, BQ, BQ, BQ, "m", "a", "r", "k", "d", "o", "w", "n">>

NLFenceClose == <<"\n", BQ, BQ, BQ, BQ>>

FenceClose == <<BQ, BQ, BQ, BQ>>

\* a variant that unwraps only a fence that is both opened and closed
stripClosedWrapperOnly(content) ==
    IF HasPrefix(content, FenceOpenNL) /\ HasSuffix(content, NLFenceClose)
    THEN TrimSpace(TrimSuffix(TrimPrefix(content, FenceOpenNL), NLFenceClose))
    ELSE TrimSpace(content)

stripMarkdownWrapper(content) ==
    LET c1 == IF HasPrefix(content, FenceOpenNL) THEN TrimPrefix(content, FenceOpenNL)
              ELSE IF HasPrefix(content, FenceOpen) THEN TrimPrefix(content, FenceOpen)
              ELSE content
        c2 == IF HasSuffix(c1, NLFenceClose) THEN TrimSuffix(c1, NLFenceClose)
              ELSE IF HasSuffix(c1, FenceClose) THEN TrimSuffix(c1, FenceClose)
              ELSE c1
    IN  TrimSpace(c2)

\* the turn of the i-th match
TurnOfMatch(content, matches, i) ==
    LET m == matches[i]
        endPos == IF i < Len(matches) THEN matches[i + 1].start ELSE Len(content)
        turnContent == TrimSpace(SubSeq(content, m.end + 1, endPos))
    IN  [Number |-> parseIntOrZero(SubSeq(content, m.numStart + 1, m.numEnd)),
         Role |-> m.role,
         Content |-> IF m.role = RoleAI THEN stripMarkdownWrapper(turnContent)
                     ELSE turnContent]

\* ParseAllTurns: err is TRUE for "no turns found in session"
ParseAllTurns(content) ==
    LET matches == FindAllTurnHeaders(content, 0)
    IN  IF Len(matches) = 0
        THEN [err |-> TRUE, turns |-> <<>>]
        ELSE [err |-> FALSE,
              turns |-> [i \in 1..Len(matches) |-> TurnOfMatch(content, matches, i)]]

(***************************************************************************)
(* State.                                                                  *)
(*                                                                         *)
(* Streaming of one AI turn (StreamResponse, the stream loop of            *)
(* streamToClaudeWithRetry and the signal handler of main):                *)
(*   file         the bytes of session.md on disk                          *)
(*   sw           the StreamWriter: its flags, its turn number and the     *)
(*                buffer (buf) and sticky error (werr) of its bufio.Writer  *)
(*   pc           where the run is: "start", "select" (top of the loop),   *)
(*                "recv" (blocked on the event channel), "callback"        *)
(*                (inside WriteChunk), "close", "done", "exited"           *)
(*   ctxDone      the context of main has been cancelled                   *)
(*   nEvents      events received so far                                   *)
(*   totalTokens  the loop's running token count                           *)
(*   cur          the chunk handed to the callback                         *)
(*   streamErr    what the stream function returned                        *)
(*   result       what StreamResponse returned                             *)
(*   base         the document when the stream started                     *)
(*   accepted     the chunks for which WriteChunk returned nil             *)
(*   ioFailed     a write, flush or sync of this run has failed            *)
(***************************************************************************)
VARIABLES file, sw, pc, ctxDone, nEvents, totalTokens, cur, streamErr, result,
          base, accepted, ioFailed

streamVars == <<file, sw, pc, ctxDone, nEvents, totalTokens, cur, streamErr, result,
                base, accepted, ioFailed>>

(***************************************************************************)
(* WriteAtomic:                                                            *)
(*   fs           the files at the target path and at the temporary path   *)
(*   apc          where WriteAtomic is: "open", "write", "rename", "done", *)
(*                "exited"                                                 *)
(*   newContent   the content WriteAtomic was called with                  *)
(*   prevTarget   the file at the target path when WriteAtomic was called  *)
(*   aerr         WriteAtomic returned an error                            *)
(***************************************************************************)
VARIABLES fs, apc, newContent, prevTarget, aerr

atomicVars == <<fs, apc, newContent, prevTarget, aerr>>

(***************************************************************************)
(* The document mutators, applied to inputs:                               *)
(*   doc, turnNo, text   the document, the turn number and the response    *)
(*                       or expanded content                               *)
(*   mpc                 "input", "appended", "replaced", "replaced twice" *)
(*   out1, out2          the results of the first and second application   *)
(***************************************************************************)
VARIABLES doc, turnNo, text, mpc, out1, out2

mutatorVars == <<doc, turnNo, text, mpc, out1, out2>>

(***************************************************************************)
(* The reference expander, applied to inputs:                              *)
(*   tree   the files and directories below the working directory: a set   *)
(*          of [path, isDir, readable, content]                            *)
(*   cfg    the configuration config.Load returns                          *)
(*   epc    "input", "walked" (expandDirectoryWithOptions was called),     *)
(*          "expanded" (ExpandReferences was called)                       *)
(*   call   the arguments of the call                                      *)
(*   res    what the call returned: [text, stats, err]                     *)
(***************************************************************************)
VARIABLES tree, cfg, epc, call, res

expandVars == <<tree, cfg, epc, call, res>>

(***************************************************************************)
(* The content filter, applied to inputs:                                  *)
(*   fcontent   the content of a file                                      *)
(*   fcfg       the filter section of the configuration                    *)
(*   fpc        "input", "filtered"                                        *)
(*   fout       what FilterContent returned                                *)
(***************************************************************************)
VARIABLES fcontent, fcfg, fpc, fout

filterVars == <<fcontent, fcfg, fpc, fout>>

(***************************************************************************)
(* A chat run (ChatCmd.Run):                                               *)
(*   sessionMd        session.md on disk: whether it exists, and its text  *)
(*   chatContent      the text the run read from session.md                *)
(*   chatTurns        the turns the run parsed, with expanded contents     *)
(*   updatedContent   the document the run means to write back             *)
(*   totalExpansions  the number of files the run expanded                 *)
(*   chatPc           "start", "read", "validated", "expanded", "written", *)
(*                    "invoked" (the run has called the model), "failed"   *)
(*   chatErr          the error the run returned: a message and the error  *)
(*                    it wraps                                             *)
(*   invocations      the number of calls of the streaming operation       *)
(***************************************************************************)
VARIABLES sessionMd, chatContent, chatTurns, updatedContent, totalExpansions, chatPc, chatErr, invocations

chatVars == <<sessionMd, chatContent, chatTurns, updatedContent, totalExpansions, chatPc, chatErr, invocations>>

(***************************************************************************)
(* The turn parser, applied to inputs:                                     *)
(*   pdoc     the document                                                 *)
(*   ppc      "input", "parsed"                                            *)
(*   parseResult   what ParseAllTurns returned                             *)
(***************************************************************************)
VARIABLES pdoc, ppc, parseResult

parseVars == <<pdoc, ppc, parseResult>>

(***************************************************************************)
(* A session over several runs: init, then edits of the user and chat runs:*)
(*   sdoc     the text of session.md                                       *)
(*   sruns    the chat runs that streamed a response so far                *)
(*   slast    the last step: "init", "edit", "complete", "interrupted",    *)
(*            "failed"                                                     *)
(***************************************************************************)
VARIABLES sdoc, sruns, slast

sessionVars == <<sdoc, sruns, slast>>

(***************************************************************************)
(* A model invocation with its retry:                                      *)
(*   modelID     the resolved model                                        *)
(*   cache       the entries of ~/.ask/cache/profiles.toml:                *)
(*               [key, arn, fresh], fresh when younger than 30 days        *)
(*   rpc         "call", "converse", "streaming", "failed"                 *)
(*   isRetry     the parameter of the running call                         *)
(*   calls       calls of streamToClaudeWithRetry so far                   *)
(*   profileArn  what ensureProfile returned to the running call           *)
(*   lookups     per call, what getCachedProfile answered: [key, found]    *)
(*   attempts    per ConverseStream request: [arn, outcome]                *)
(***************************************************************************)
VARIABLES modelID, cache, rpc, isRetry, calls, profileArn, lookups, attempts

retryVars == <<modelID, cache, rpc, isRetry, calls, profileArn, lookups, attempts>>

vars == <<streamVars, atomicVars, mutatorVars, expandVars, filterVars, chatVars, parseVars, sessionVars, retryVars>>

(***************************************************************************)
(* Each part of the program has its own specification; the variables of    *)
(* the other parts are idle in it.                                         *)
(***************************************************************************)
IdleStream ==
    /\ file = <<>> /\ base = <<>> /\ pc = "idle"
    /\ sw = [buf |-> <<>>, werr |-> FALSE, turnNumber |-> 0, headerWritten |-> FALSE,
             contentWritten |-> FALSE, isInterrupted |-> FALSE]
    /\ ctxDone = FALSE /\ nEvents = 0 /\ totalTokens = 0 /\ cur = <<>>
    /\ streamErr = "nil" /\ result = "none" /\ accepted = <<>> /\ ioFailed = FALSE

IdleAtomic ==
    /\ fs = <<>> /\ apc = "idle" /\ newContent = <<>>
    /\ prevTarget = <<>> /\ aerr = FALSE

IdleMutator ==
    /\ doc = <<>> /\ turnNo = 0 /\ text = <<>> /\ mpc = "idle"
    /\ out1 = <<>> /\ out2 = <<>>

IdleExpand ==
    /\ tree = {} /\ cfg = <<>> /\ epc = "idle" /\ call = <<>> /\ res = <<>>

IdleFilter ==
    /\ fcontent = <<>> /\ fcfg = <<>> /\ fpc = "idle" /\ fout = <<>>

NoError == [msg |-> "nil", cause |-> "nil"]

IdleChat ==
    /\ sessionMd = [exists |-> FALSE, text |-> <<>>]
    /\ chatContent = <<>> /\ chatTurns = <<>> /\ updatedContent = <<>>
    /\ totalExpansions = 0 /\ chatPc = "idle" /\ chatErr = NoError
    /\ invocations = 0

IdleParse ==
    /\ pdoc = <<>> /\ ppc = "idle" /\ parseResult = <<>>

IdleSession ==
    /\ sdoc = <<>> /\ sruns = 0 /\ slast = "idle"

IdleRetry ==
    /\ modelID = <<>> /\ cache = {} /\ rpc = "idle" /\ isRetry = FALSE
    /\ calls = 0 /\ profileArn = "none" /\ lookups = <<>> /\ attempts = <<>>

notStream == <<atomicVars, mutatorVars, expandVars, filterVars, chatVars, parseVars, sessionVars, retryVars>>

notAtomic == <<streamVars, mutatorVars, expandVars, filterVars, chatVars, parseVars, sessionVars, retryVars>>

notMutator == <<streamVars, atomicVars, expandVars, filterVars, chatVars, parseVars, sessionVars, retryVars>>

notExpand == <<streamVars, atomicVars, mutatorVars, filterVars, chatVars, parseVars, sessionVars, retryVars>>

notFilter == <<streamVars, atomicVars, mutatorVars, expandVars, chatVars, parseVars, sessionVars, retryVars>>

notChat == <<streamVars, atomicVars, mutatorVars, expandVars, filterVars, parseVars, sessionVars, retryVars>>

notParse == <<streamVars, atomicVars, mutatorVars, expandVars, filterVars, chatVars, sessionVars, retryVars>>

notSession == <<streamVars, atomicVars, mutatorVars, expandVars, filterVars, chatVars, parseVars, retryVars>>

notRetry == <<streamVars, atomicVars, mutatorVars, expandVars, filterVars, chatVars, parseVars, sessionVars>>

(***************************************************************************)
(* bufio.Writer over the session file.  w = [file, buf, err].              *)
(***************************************************************************)
\* the default buffer size of bufio.NewWriter
BufSize == 4096

\* how a write to the file can end: everything written, or a short write
\* (nothing, or half of the bytes) reported as an error
WriteOutcomes == {"all", "none", "half"}

Written(bytes, outcome) ==
    CASE outcome = "all" -> Len(bytes)
      [] outcome = "none" -> 0
      [] outcome = "half" -> Len(bytes) \div 2

\* a variant for a file opened without O_APPEND: the bytes go to the start
BufFlushAtStart(w, outcome) ==
    IF w.err THEN w
    ELSE IF w.buf = <<>> THEN w
    ELSE LET n == Written(w.buf, outcome)
         IN  [file |-> UpTo(w.buf, n) \o From(w.file, IF n < Len(w.file) THEN n ELSE Len(w.file)),
              buf |-> From(w.buf, n),
              err |-> outcome # "all"]

\* (*bufio.Writer).Flush
BufFlush(w, outcome) ==
    IF w.err THEN w
    ELSE IF w.buf = <<>> THEN w
    ELSE LET n == Written(w.buf, outcome)
         IN  [file |-> w.file \o UpTo(w.buf, n),
              buf |-> From(w.buf, n),
              err |-> outcome # "all"]

\* (*bufio.Writer).WriteString: the bytes that do not fit are written through
RECURSIVE BufWriteString(_, _, _)
BufWriteString(w, s, outcome) ==
    IF w.err THEN w
    ELSE IF Len(s) <= BufSize - Len(w.buf) THEN [w EXCEPT !.buf = @ \o s]
    ELSE LET room == BufSize - Len(w.buf)
         IN  BufWriteString(BufFlush([w EXCEPT !.buf = @ \o UpTo(s, room)], outcome),
                            From(s, room), outcome)

(***************************************************************************)
(* StreamWriter.                                                           *)
(***************************************************************************)
\* fmt.Sprintf("\n\n# [%d] AI\n\n````markdown\n", sw.turnNumber)
AIHeader(n) ==
    <<"\n", "\n", "#", " ", "[">> \o Itoa(n)
        \o <<"]", " ", "A", "I", "\n", "\n", BQ, BQ, BQ, BQ,
             "m", "a", "r", "k", "d", "o", "w", "n", "\n">>

\* fmt.Sprintf("\n[Interrupted after %d tokens]", tokenCount)
InterruptMarker(tokenCount) ==
    <<"\n", "[", "I", "n", "t", "e", "r", "r", "u", "p", "t", "e", "d", " ",
      "a", "f", "t", "e", "r", " ">> \o Itoa(tokenCount)
        \o <<" ", "t", "o", "k", "e", "n", "s", "]">>

\* a variant that closes the fence with three backticks
FenceEndThreeTicks == <<"\n", BQ, BQ, BQ, "\n">>

\* "\n````\n"
FenceEnd == <<"\n", BQ, BQ, BQ, BQ, "\n">>

\* fmt.Sprintf("\n\n# [%d] Human\n\n", sw.turnNumber+1)
NextHumanHeader(n) ==
    <<"\n", "\n", "#", " ", "[">> \o Itoa(n)
        \o <<"]", " ", "H", "u", "m", "a", "n", "\n", "\n">>

NewStreamWriter(turnNumber) ==
    [buf |-> <<>>, werr |-> FALSE, turnNumber |-> turnNumber,
     headerWritten |-> FALSE, contentWritten |-> FALSE, isInterrupted |-> FALSE]

WriterOf(f, s) == [file |-> f, buf |-> s.buf, err |-> s.werr]

\* the state after a call: the file, the writer and whether it returned an error
Returned(w, s, failed) ==
    [file |-> w.file, sw |-> [s EXCEPT !.buf = w.buf, !.werr = w.err], err |-> failed]

\* (*StreamWriter).writeHeader
writeHeader(f, s, outcome) ==
    IF s.headerWritten THEN Returned(WriterOf(f, s), s, FALSE)
    ELSE LET w1 == BufWriteString(WriterOf(f, s), AIHeader(s.turnNumber), outcome)
             w2 == BufFlush(w1, outcome)
         IN  IF w1.err THEN Returned(w1, s, TRUE)
             ELSE IF w2.err THEN Returned(w2, s, TRUE)
             ELSE Returned(w2, [s EXCEPT !.headerWritten = TRUE], FALSE)

\* (*StreamWriter).WriteChunk up to and including its call of writeHeader;
\* done is TRUE when WriteChunk returns there
WriteChunkHead(f, s, chunk, outcome) ==
    IF s.isInterrupted \/ chunk = <<>>
    THEN [ret |-> Returned(WriterOf(f, s), s, FALSE), done |-> TRUE]
    ELSE IF ~s.headerWritten
    THEN LET r == writeHeader(f, s, outcome) IN [ret |-> r, done |-> r.err]
    ELSE [ret |-> Returned(WriterOf(f, s), s, FALSE), done |-> FALSE]

\* a variant that leaves the chunk in the buffer
WriteChunkBodyNoFlush(f, s, chunk, outcome) ==
    LET w1 == BufWriteString(WriterOf(f, s), chunk, outcome)
    IN  IF w1.err THEN Returned(w1, s, TRUE)
        ELSE Returned(w1, [s EXCEPT !.contentWritten = TRUE], FALSE)

\* the write of the chunk and the flush that ends WriteChunk
WriteChunkBody(f, s, chunk, outcome) ==
    LET w1 == BufWriteString(WriterOf(f, s), chunk, outcome)
        w2 == BufFlush(w1, outcome)
    IN  IF w1.err THEN Returned(w1, s, TRUE)
        ELSE Returned(w2, [s EXCEPT !.contentWritten = TRUE], w2.err)

\* a variant that writes the interruption marker after closing the fence
CloseMarkerAfterFence(f, s, interrupted, tokenCount, outcome, syncOk) ==
    IF ~s.headerWritten THEN Returned(WriterOf(f, s), s, FALSE)
    ELSE LET mark == interrupted /\ ~s.isInterrupted /\ s.contentWritten
             s1 == IF mark THEN [s EXCEPT !.isInterrupted = TRUE] ELSE s
             w1 == BufWriteString(WriterOf(f, s), FenceEnd, outcome)
             w2 == IF mark THEN BufWriteString(w1, InterruptMarker(tokenCount), outcome)
                   ELSE w1
             w3 == BufWriteString(w2, NextHumanHeader(s.turnNumber + 1), outcome)
             w4 == BufFlush(w3, outcome)
         IN  IF w3.err \/ w4.err THEN Returned(w4, s1, TRUE)
             ELSE Returned(w4, s1, ~syncOk)

\* (*StreamWriter).Close; syncOk is the outcome of file.Sync
Close(f, s, interrupted, tokenCount, outcome, syncOk) ==
    IF ~s.headerWritten THEN Returned(WriterOf(f, s), s, FALSE)
    ELSE LET mark == interrupted /\ ~s.isInterrupted /\ s.contentWritten
             s1 == IF mark THEN [s EXCEPT !.isInterrupted = TRUE] ELSE s
             w0 == WriterOf(f, s)
             w1 == IF mark THEN BufWriteString(w0, InterruptMarker(tokenCount), outcome)
                   ELSE w0
             w2 == BufWriteString(w1, FenceEnd, outcome)
             w3 == BufWriteString(w2, NextHumanHeader(s.turnNumber + 1), outcome)
             w4 == BufFlush(w3, outcome)
         IN  IF w3.err \/ w4.err THEN Returned(w4, s1, TRUE)
             ELSE Returned(w4, s1, ~syncOk)

(***************************************************************************)
(* The streaming phase of a chat run.                                      *)
(***************************************************************************)
\* documents a chat run streams into: turns 1..3 without a final newline,
\* and a single Human turn numbered 9
BaseDocs ==
    { <<"#", " ", "[", "1", "]", " ", "H", "u", "m", "a", "n", "\n", "\n", "q", "\n", "\n",
        "#", " ", "[", "2", "]", " ", "A", "I", "\n", "\n", BQ, BQ, BQ, BQ,
        "m", "a", "r", "k", "d", "o", "w", "n", "\n", "a", "n", "s", "\n", BQ, BQ, BQ, BQ,
        "\n", "\n", "\n", "#", " ", "[", "3", "]", " ", "H", "u", "m", "a", "n", "\n", "\n",
        "m", "o", "r", "e">>,
      <<"#", " ", "[", "9", "]", " ", "H", "u", "m", "a", "n", "\n", "\n", "q", "\n">> }

\* the text deltas the model sends: "Hello", " world", a closing fence of
\* four backticks, a turn heading, and the empty delta
Chunks ==
    { <<"H", "e", "l", "l", "o">>,
      <<" ", "w", "o", "r", "l", "d">>,
      <<BQ, BQ, BQ, BQ>>,
      <<"#", " ", "[", "7", "]", " ", "A", "I">>,
      <<>> }

\* Usage.OutputTokens of a metadata event
UsageTokens == {12}

\* a variant that numbers the response after the number of turns read
NextTurnNumberByCount(content) ==
    Len(ParseAllTurns(content).turns) + 2

\* chat.go: nextTurnNumber := turns[len(turns)-1].Number + 1
NextTurnNumber(content) ==
    LET turns == ParseAllTurns(content).turns IN turns[Len(turns)].Number + 1

Running == {"select", "recv", "callback", "close"}

InitStream ==
    /\ IdleAtomic /\ IdleMutator /\ IdleExpand /\ IdleFilter /\ IdleChat /\ IdleParse /\ IdleSession /\ IdleRetry
    /\ file \in BaseDocs
    /\ base = file
    /\ sw = NewStreamWriter(NextTurnNumber(file))
    /\ pc = "select"
    /\ ctxDone = FALSE
    /\ nEvents = 0
    /\ totalTokens = 0
    /\ cur = <<>>
    /\ streamErr = "nil"
    /\ result = "none"
    /\ accepted = <<>>
    /\ ioFailed = FALSE

\* main: the first signal cancels the context
Cancel ==
    /\ UNCHANGED notStream
    /\ pc \in Running
    /\ ~ctxDone
    /\ ctxDone' = TRUE
    /\ UNCHANGED <<file, sw, pc, nEvents, totalTokens, cur, streamErr, result,
                   base, accepted, ioFailed>>

\* main: the second signal ends the process with os.Exit(1)
ForceExit ==
    /\ UNCHANGED notStream
    /\ pc \in Running
    /\ ctxDone
    /\ pc' = "exited"
    /\ UNCHANGED <<file, sw, ctxDone, nEvents, totalTokens, cur, streamErr, result,
                   base, accepted, ioFailed>>

\* the process is killed or crashes
Crash ==
    /\ UNCHANGED notStream
    /\ pc \in Running
    /\ pc' = "exited"
    /\ UNCHANGED <<file, sw, ctxDone, nEvents, totalTokens, cur, streamErr, result,
                   base, accepted, ioFailed>>

\* the select at the top of the loop: ctx.Done() wins over default
LoopSelect ==
    /\ UNCHANGED notStream
    /\ pc = "select"
    /\ IF ctxDone
       THEN streamErr' = "context canceled" /\ pc' = "close"
       ELSE streamErr' = streamErr /\ pc' = "recv"
    /\ UNCHANGED <<file, sw, ctxDone, nEvents, totalTokens, cur, result,
                   base, accepted, ioFailed>>

\* event, ok := <-eventStream.Events() with ok false: the stream ended
RecvClosed ==
    /\ UNCHANGED notStream
    /\ pc = "recv"
    /\ pc' = "close"
    /\ UNCHANGED <<file, sw, ctxDone, nEvents, totalTokens, cur, streamErr, result,
                   base, accepted, ioFailed>>

\* a MessageStop event
RecvMessageStop ==
    /\ UNCHANGED notStream
    /\ pc = "recv"
    /\ nEvents < MaxEvents
    /\ nEvents' = nEvents + 1
    /\ pc' = "close"
    /\ UNCHANGED <<file, sw, ctxDone, totalTokens, cur, streamErr, result,
                   base, accepted, ioFailed>>

\* a Metadata event with usage
RecvMetadata ==
    /\ UNCHANGED notStream
    /\ pc = "recv"
    /\ nEvents < MaxEvents
    /\ \E n \in UsageTokens : totalTokens' = n
    /\ nEvents' = nEvents + 1
    /\ pc' = "select"
    /\ UNCHANGED <<file, sw, ctxDone, cur, streamErr, result, base, accepted, ioFailed>>

\* a ContentBlockDelta event with a text delta: the callback is called for
\* a chunk that is not empty
RecvDelta ==
    /\ UNCHANGED notStream
    /\ pc = "recv"
    /\ nEvents < MaxEvents
    /\ nEvents' = nEvents + 1
    /\ \E chunk \in Chunks :
          IF chunk # <<>>
          THEN /\ totalTokens' = totalTokens + Len(chunk) \div 4
               /\ cur' = chunk
               /\ pc' = "callback"
          ELSE /\ UNCHANGED <<totalTokens, cur>>
               /\ pc' = "select"
    /\ UNCHANGED <<file, sw, ctxDone, streamErr, result, base, accepted, ioFailed>>

\* the callback of chat.go returns r.err; an error ends the loop
CallbackReturns(r) ==
    /\ file' = r.file
    /\ sw' = r.sw
    /\ ioFailed' = (ioFailed \/ r.err)
    /\ IF r.err
       THEN streamErr' = "write failed" /\ pc' = "close" /\ accepted' = accepted
       ELSE streamErr' = streamErr /\ pc' = "select" /\ accepted' = Append(accepted, cur)

\* WriteChunk on the first chunk: the header is written and flushed
WriteChunkHeader ==
    /\ UNCHANGED notStream
    /\ pc = "callback"
    /\ ~sw.headerWritten
    /\ \E outcome \in WriteOutcomes :
          LET h == WriteChunkHead(file, sw, cur, outcome)
          IN  IF h.done
              THEN CallbackReturns(h.ret)
              ELSE /\ file' = h.ret.file
                   /\ sw' = h.ret.sw
                   /\ UNCHANGED <<pc, streamErr, accepted, ioFailed>>
    /\ UNCHANGED <<ctxDone, nEvents, totalTokens, cur, result, base>>

\* WriteChunk once the header is there: the chunk is written and flushed
WriteChunk ==
    /\ UNCHANGED notStream
    /\ pc = "callback"
    /\ sw.headerWritten
    /\ \E outcome \in WriteOutcomes :
          LET h == WriteChunkHead(file, sw, cur, outcome)
          IN  IF h.done
              THEN CallbackReturns(h.ret)
              ELSE CallbackReturns(WriteChunkBody(h.ret.file, h.ret.sw, cur, outcome))
    /\ UNCHANGED <<ctxDone, nEvents, totalTokens, cur, result, base>>

\* StreamResponse after streamFunc returned: Close, then the result
CloseAndReturn ==
    /\ UNCHANGED notStream
    /\ pc = "close"
    /\ \E outcome \in WriteOutcomes, syncOk \in BOOLEAN :
          LET interrupted == streamErr = "context canceled"
              r == Close(file, sw, interrupted, totalTokens, outcome, syncOk)
          IN  /\ file' = r.file
              /\ sw' = r.sw
              /\ ioFailed' = (ioFailed \/ r.err)
              /\ result' = IF r.err THEN "failed to close stream"
                           ELSE IF streamErr # "nil" /\ ~interrupted THEN streamErr
                           ELSE "nil"
    /\ pc' = "done"
    /\ UNCHANGED <<ctxDone, nEvents, totalTokens, cur, streamErr, base, accepted>>

NextStream ==
    \/ Cancel
    \/ ForceExit
    \/ Crash
    \/ LoopSelect
    \/ RecvClosed
    \/ RecvMessageStop
    \/ RecvMetadata
    \/ RecvDelta
    \/ WriteChunkHeader
    \/ WriteChunk
    \/ CloseAndReturn

\* an editor that has session.md open saves one more character at its end
\* while the run streams (once per run)
EditorMark == <<"~">>

ExternalAppend ==
    /\ UNCHANGED notStream
    /\ pc \in Running
    /\ ~Contains(file, EditorMark)
    /\ file' = file \o EditorMark
    /\ UNCHANGED <<sw, pc, ctxDone, nEvents, totalTokens, cur, streamErr, result,
                   base, accepted, ioFailed>>

NextStreamEdited ==
    \/ NextStream
    \/ ExternalAppend

(***************************************************************************)
(* WriteAtomic.                                                            *)
(***************************************************************************)
\* "session.md"
SessionPath == <<"s", "e", "s", "s", "i", "o", "n", ".", "m", "d">>

\* a variant that writes to the target path itself
TmpPathIsTarget(path) == path

\* tmp := path + ".tmp"
TmpPath(path) == path \o <<".", "t", "m", "p">>

\* a path that names no file
NoFile == [exists |-> FALSE, data |-> <<>>]

FileOf(data) == [exists |-> TRUE, data |-> data]

RECURSIVE SeqsUpTo(_, _)
SeqsUpTo(S, n) ==
    IF n = 0 THEN {<<>>}
    ELSE SeqsUpTo(S, n - 1) \cup {Append(q, x) : q \in SeqsUpTo(S, n - 1), x \in S}

FileContents == SeqsUpTo({"a", "b"}, MaxFileLen)

FilePaths == {SessionPath, SessionPath \o <<".", "t", "m", "p">>}

\* os.Rename(oldpath, newpath): newpath is replaced in one step
Rename(f, oldpath, newpath) ==
    IF oldpath = newpath THEN f
    ELSE [f EXCEPT ![newpath] = f[oldpath], ![oldpath] = NoFile]

\* WriteAtomic is called with any content, over any target (or none) and
\* any temporary file left behind by an earlier run
InitAtomic ==
    /\ IdleStream /\ IdleMutator /\ IdleExpand /\ IdleFilter /\ IdleChat /\ IdleParse /\ IdleSession /\ IdleRetry
    /\ newContent \in FileContents
    /\ prevTarget \in {NoFile} \cup {FileOf(c) : c \in FileContents}
    /\ \E stale \in {NoFile} \cup {FileOf(c) : c \in FileContents} :
          fs = [q \in FilePaths |-> IF q = SessionPath THEN prevTarget ELSE stale]
    /\ apc = "open"
    /\ aerr = FALSE

\* os.WriteFile: OpenFile(tmp, O_WRONLY|O_CREATE|O_TRUNC), which may fail
WriteFileOpen ==
    /\ UNCHANGED notAtomic
    /\ apc = "open"
    /\ \E ok \in BOOLEAN :
          IF ok
          THEN /\ fs' = [fs EXCEPT ![TmpPath(SessionPath)] = FileOf(<<>>)]
               /\ apc' = "write"
               /\ aerr' = aerr
          ELSE /\ fs' = fs
               /\ apc' = "done"
               /\ aerr' = TRUE
    /\ UNCHANGED <<newContent, prevTarget>>

\* os.WriteFile: Write and Close; a failed write leaves n bytes behind
WriteFileWrite ==
    /\ UNCHANGED notAtomic
    /\ apc = "write"
    /\ \E n \in 0..Len(newContent) :
          /\ fs' = [fs EXCEPT ![TmpPath(SessionPath)] = FileOf(UpTo(newContent, n))]
          /\ \/ n = Len(newContent) /\ apc' = "rename" /\ aerr' = aerr
             \/ apc' = "done" /\ aerr' = TRUE
    /\ UNCHANGED <<newContent, prevTarget>>

\* return os.Rename(tmp, path)
RenameTmp ==
    /\ UNCHANGED notAtomic
    /\ apc = "rename"
    /\ \E ok \in BOOLEAN :
          IF ok
          THEN fs' = Rename(fs, TmpPath(SessionPath), SessionPath) /\ aerr' = aerr
          ELSE fs' = fs /\ aerr' = TRUE
    /\ apc' = "done"
    /\ UNCHANGED <<newContent, prevTarget>>

\* the process stops inside WriteAtomic
AtomicCrash ==
    /\ UNCHANGED notAtomic
    /\ apc \in {"open", "write", "rename"}
    /\ apc' = "exited"
    /\ UNCHANGED <<fs, newContent, prevTarget, aerr>>

NextAtomic ==
    \/ WriteFileOpen
    \/ WriteFileWrite
    \/ RenameTmp
    \/ AtomicCrash

(***************************************************************************)
(* Document mutators.                                                      *)
(***************************************************************************)
\* fmt.Sprintf("## [%d] Human", turnNumber)
HumanHeader(turnNumber) ==
    <<"#", "#", " ", "[">> \o Itoa(turnNumber) \o <<"]", " ", "H", "u", "m", "a", "n">>

\* "\n## ["
NextHeaderMark == <<"\n", "#", "#", " ", "[">>

ReplaceLastHumanTurn(content, turnNumber, expanded) ==
    LET header == HumanHeader(turnNumber)
        headerPos == LastIndex(content, header)
        afterHeader == From(content, headerPos + Len(header))
        nextHeaderPos == Index(afterHeader, NextHeaderMark)
        endPos == headerPos + Len(header) + nextHeaderPos
    IN  IF headerPos = -1 THEN content
        ELSE IF nextHeaderPos = -1
        THEN UpTo(content, headerPos) \o header \o <<"\n", "\n">>
                 \o TrimSpace(expanded) \o <<"\n">>
        ELSE UpTo(content, headerPos) \o header \o <<"\n", "\n">>
                 \o TrimSpace(expanded) \o <<"\n">> \o From(content, endPos)

\* fmt.Sprintf("\n## [%d] AI\n\n````markdown\n%s\n````\n", turnNumber,
\*             strings.TrimSpace(response))
AppendAIResponse(content, turnNumber, response) ==
    content \o <<"\n", "#", "#", " ", "[">> \o Itoa(turnNumber)
        \o <<"]", " ", "A", "I", "\n", "\n", BQ, BQ, BQ, BQ,
             "m", "a", "r", "k", "d", "o", "w", "n", "\n">>
        \o TrimSpace(response) \o <<"\n", BQ, BQ, BQ, BQ, "\n">>

\* session documents: the document init creates with a first question, and
\* two documents whose headings are written with two hashes
MutatorDocs ==
    { <<"#", " ", "[", "1", "]", " ", "H", "u", "m", "a", "n", "\n", "\n", "H", "i", "\n">>,
      <<"#", "#", " ", "[", "1", "]", " ", "H", "u", "m", "a", "n", "\n", "\n",
        "L", "o", "o", "k", ":", "\n", "[", "[", "a", ".", "g", "o", "]", "]", "\n">>,
      <<"#", "#", " ", "[", "1", "]", " ", "H", "u", "m", "a", "n", "\n", "\n", "q", "\n", "\n",
        "#", "#", " ", "[", "2", "]", " ", "A", "I", "\n", "\n", BQ, BQ, BQ, BQ,
        "m", "a", "r", "k", "d", "o", "w", "n", "\n", "a", "n", "s", "\n", BQ, BQ, BQ, BQ,
        "\n", "\n", "#", "#", " ", "[", "3", "]", " ", "H", "u", "m", "a", "n", "\n", "\n",
        "m", "o", "r", "e", "\n">> }

\* responses and expanded contents: plain text, padded text, the empty
\* text, text that quotes a turn heading in the middle of a line, a section
\* as the expander formats it, text that is itself fenced, and text that
\* quotes a two-hash heading
MutatorTexts ==
    { <<"o", "k">>,
      <<BQ, BQ, BQ, BQ>>,
      <<" ", " ", "p", "a", "d", "d", "e", "d", " ", "\n">>,
      <<>>,
      <<"s", "e", "e", " ", "#", " ", "[", "1", "]", " ", "H", "u", "m", "a", "n">>,
      <<"L", "o", "o", "k", ":", "\n", "#", "#", " ", "[", "1", ".", "1", "]", " ",
        "a", ".", "g", "o", "\n", BQ, BQ, BQ, "g", "o", "\n", "x", "\n", BQ, BQ, BQ>>,
      <<BQ, BQ, BQ, BQ, "m", "a", "r", "k", "d", "o", "w", "n", "\n", "x", "\n",
        BQ, BQ, BQ, BQ>>,
      <<"a", "g", "a", "i", "n", " ", "#", "#", " ", "[", "3", "]", " ",
        "H", "u", "m", "a", "n">> }

InitMutator ==
    /\ IdleStream /\ IdleAtomic /\ IdleExpand /\ IdleFilter /\ IdleChat /\ IdleParse /\ IdleSession /\ IdleRetry
    /\ doc \in MutatorDocs
    /\ turnNo \in 1..MaxTurn
    /\ text \in MutatorTexts
    /\ mpc = "input"
    /\ out1 = <<>>
    /\ out2 = <<>>

ApplyAppendAIResponse ==
    /\ UNCHANGED notMutator
    /\ mpc = "input"
    /\ out1' = AppendAIResponse(doc, turnNo, text)
    /\ mpc' = "appended"
    /\ UNCHANGED <<doc, turnNo, text, out2>>

ApplyReplaceLastHumanTurn ==
    /\ UNCHANGED notMutator
    /\ mpc = "input"
    /\ out1' = ReplaceLastHumanTurn(doc, turnNo, text)
    /\ mpc' = "replaced"
    /\ UNCHANGED <<doc, turnNo, text, out2>>

ApplyReplaceLastHumanTurnAgain ==
    /\ UNCHANGED notMutator
    /\ mpc = "replaced"
    /\ out2' = ReplaceLastHumanTurn(out1, turnNo, text)
    /\ mpc' = "replaced twice"
    /\ UNCHANGED <<doc, turnNo, text, out1>>

NextMutator ==
    \/ ApplyAppendAIResponse
    \/ ApplyReplaceLastHumanTurn
    \/ ApplyReplaceLastHumanTurnAgain

(***************************************************************************)
(* Reference expander: the file system.                                    *)
(***************************************************************************)
\* filepath.Dir of a clean relative path, <<>> for a name in the working
\* directory
DirOf(path) ==
    IF LastIndex(path, <<"/">>) = -1 THEN <<>> ELSE UpTo(path, LastIndex(path, <<"/">>))

Exists(path) == \E n \in tree : n.path = path

NodeAt(path) == CHOOSE n \in tree : n.path = path

\* os.ReadDir: the entries of a directory
ReadDir(dirPath) == {n \in tree : DirOf(n.path) = dirPath}

\* fmt.Sprintf("## [%d.%d] %s\n(fence)%s\n%s\n(fence)", ...) with a fence
\* of three backticks
Section(turnNumber, sectionNumber, fileName, langHint, filteredContent) ==
    <<"#", "#", " ", "[">> \o Itoa(turnNumber) \o <<".">> \o Itoa(sectionNumber)
        \o <<"]", " ">> \o fileName \o <<"\n", BQ, BQ, BQ>> \o langHint
        \o <<"\n">> \o filteredContent \o <<"\n", BQ, BQ, BQ>>

NoResult == [text |-> <<>>, stats |-> <<>>, err |-> "nil"]

Failed(err) == [text |-> <<>>, stats |-> <<>>, err |-> err]

(***************************************************************************)
(* Reference expander: directories.                                        *)
(***************************************************************************)
\* the loop over the sorted files, from the i-th on
RECURSIVE expandFiles(_, _, _, _)
expandFiles(files, i, turnNumber, sectionNumber) ==
    IF i > Len(files) THEN [sections |-> <<>>, stats |-> <<>>]
    ELSE LET filePath == files[i]
             fileContent == NodeAt(filePath).content
             filteredContent == FilterContent(fileContent, filePath, cfg.Filter)
             section == Section(turnNumber, sectionNumber, filePath,
                                getLanguageHint(filePath), filteredContent)
             rest == expandFiles(files, i + 1, turnNumber, sectionNumber + 1)
         IN  IF ~NodeAt(filePath).readable \/ isBinary(fileContent)
             THEN expandFiles(files, i + 1, turnNumber, sectionNumber)
             ELSE [sections |-> <<section>> \o rest.sections,
                   stats |-> <<[File |-> filePath,
                                Tokens |-> Len(filteredContent) \div 4]>>
                             \o rest.stats]

RECURSIVE expandDirectoryWithOptions(_, _, _, _, _, _)
RECURSIVE expandDirectoryBody(_, _, _, _, _, _)
RECURSIVE expandSubdirs(_, _, _, _, _, _, _)
RECURSIVE expandSubdirsSameNumber(_, _, _, _, _, _, _)
\* the loop that gives every subdirectory the same first section number
expandSubdirsSameNumber(subdirs, i, turnNumber, sectionNumber, expandCfg, recursive, depth) ==
    IF i > Len(subdirs) THEN [sections |-> <<>>, stats |-> <<>>]
    ELSE LET sub == expandDirectoryWithOptions(subdirs[i], turnNumber, sectionNumber,
                                               expandCfg, recursive, depth + 1)
             rest == expandSubdirsSameNumber(subdirs, i + 1, turnNumber, sectionNumber,
                                             expandCfg, recursive, depth)
         IN  IF sub.err # "nil" \/ sub.text = <<>>
             THEN rest
             ELSE [sections |-> <<sub.text>> \o rest.sections,
                   stats |-> sub.stats \o rest.stats]

\* the loop over the sorted subdirectories, from the i-th on
expandSubdirs(subdirs, i, turnNumber, sectionNumber, expandCfg, recursive, depth) ==
    IF i > Len(subdirs) THEN [sections |-> <<>>, stats |-> <<>>]
    ELSE LET sub == expandDirectoryWithOptions(subdirs[i], turnNumber, sectionNumber,
                                               expandCfg, recursive, depth + 1)
             rest == expandSubdirs(subdirs, i + 1, turnNumber,
                                   sectionNumber + Len(sub.stats),
                                   expandCfg, recursive, depth)
         IN  IF sub.err # "nil" \/ sub.text = <<>>
             THEN expandSubdirs(subdirs, i + 1, turnNumber, sectionNumber,
                                expandCfg, recursive, depth)
             ELSE [sections |-> <<sub.text>> \o rest.sections,
                   stats |-> sub.stats \o rest.stats]

\* the body of expandDirectoryWithOptions after its depth check
expandDirectoryBody(dirPath, turnNumber, startSection, expandCfg, recursive, depth) ==
    IF ~Exists(dirPath) THEN Failed("directory not found")
    ELSE IF ~NodeAt(dirPath).isDir THEN Failed("not a directory")
    ELSE IF ~NodeAt(dirPath).readable THEN Failed("failed to read directory")
    ELSE
    LET entries == ReadDir(dirPath)
        files == SortStrings(
            {JoinPath(dirPath, Base(entry.path)) : entry \in
                {e \in entries :
                    /\ ~e.isDir
                    /\ shouldIncludeFile(Base(e.path),
                                         JoinPath(dirPath, Base(e.path)), expandCfg)}})
        subdirs == SortStrings(
            {JoinPath(dirPath, Base(entry.path)) : entry \in
                {e \in entries :
                    e.isDir /\ ~isExcludedDirectory(Base(e.path), expandCfg)}})
        fromFiles == expandFiles(files, 1, turnNumber, startSection)
        fromSubdirs ==
            IF recursive
            THEN expandSubdirs(subdirs, 1, turnNumber,
                               startSection + Len(fromFiles.stats),
                               expandCfg, recursive, depth)
            ELSE [sections |-> <<>>, stats |-> <<>>]
        sections == fromFiles.sections \o fromSubdirs.sections
    IN  IF sections = <<>> /\ depth = 0
        THEN Failed("no matching files in directory")
        ELSE [text |-> Join(sections, <<"\n", "\n">>),
              stats |-> fromFiles.stats \o fromSubdirs.stats,
              err |-> "nil"]

\* the variant that never stops at the depth limit
expandDirectoryAnyDepth(dirPath, turnNumber, startSection, expandCfg, recursive, depth) ==
    expandDirectoryBody(dirPath, turnNumber, startSection, expandCfg, recursive, depth)

expandDirectoryWithOptions(dirPath, turnNumber, startSection, expandCfg, recursive, depth) ==
    IF depth >= expandCfg.MaxDepth
    THEN NoResult
    ELSE expandDirectoryBody(dirPath, turnNumber, startSection, expandCfg,
                             recursive, depth)

(***************************************************************************)
(* Reference expander: references.                                         *)
(***************************************************************************)
\* a match of the pattern \[\[([^\]]+)\]\] that starts at offset i:
\* [found, end (the offset after it), path (the capture)]
ReferenceAt(s, i) ==
    LET close == Index(From(s, i + 2), <<"]">>)
    IN  IF /\ HasPrefix(From(s, i), <<"[", "[">>)
           /\ close >= 1
           /\ HasPrefix(From(s, i + 2 + close), <<"]", "]">>)
        THEN [found |-> TRUE, start |-> i, end |-> i + 2 + close + 2,
              path |-> SubSeq(s, i + 3, i + 2 + close)]
        ELSE [found |-> FALSE]

\* pattern.FindAllStringSubmatch(content, -1): the leftmost matches, none
\* overlapping another, from offset pos on
RECURSIVE FindAllReferences(_, _)
FindAllReferences(s, pos) ==
    LET starts == {i \in pos..(Len(s) - 1) : ReferenceAt(s, i).found}
        rest(m) == <<m>> \o FindAllReferences(s, m.end)
    IN  IF starts = {} THEN <<>> ELSE rest(ReferenceAt(s, MinOf(starts)))

expandFile(fileName, turnNumber, sectionNumber) ==
    IF ~Exists(fileName) THEN Failed("cannot find")
    ELSE IF NodeAt(fileName).isDir \/ ~NodeAt(fileName).readable
    THEN Failed("failed to read")
    ELSE IF isBinary(NodeAt(fileName).content) THEN NoResult
    ELSE LET filteredContent ==
                 FilterContent(NodeAt(fileName).content, fileName, cfg.Filter)
         IN  [text |-> Section(turnNumber, sectionNumber, fileName,
                               getLanguageHint(fileName), filteredContent),
              stats |-> <<[File |-> fileName,
                           Tokens |-> Len(filteredContent) \div 4]>>,
              err |-> "nil"]

RecursiveSuffix == <<"/", "*", "*", "/">>

\* the loop of ExpandReferences over the matches, from the i-th on
RECURSIVE expandMatches(_, _, _, _, _, _, _)
expandMatches(content, turnNumber, matches, i, expanded, stats, sectionNumber) ==
    IF i > Len(matches) THEN [text |-> expanded, stats |-> stats, err |-> "nil"]
    ELSE
    LET fullMatch == SubSeq(content, matches[i].start + 1, matches[i].end)
        forceRecursive == HasSuffix(matches[i].path, RecursiveSuffix)
        path == IF forceRecursive
                THEN TrimSuffix(matches[i].path, RecursiveSuffix) \o <<"/">>
                ELSE matches[i].path
        dirPath == TrimSuffix(path, <<"/">>)
        dirRes == expandDirectoryWithOptions(dirPath, turnNumber, sectionNumber,
                   cfg.Expand, cfg.Expand.Recursive \/ forceRecursive, 0)
        fileRes == expandFile(path, turnNumber, sectionNumber)
    IN  IF HasSuffix(path, <<"/">>)
        THEN IF dirRes.err # "nil" THEN Failed(dirRes.err)
             ELSE expandMatches(content, turnNumber, matches, i + 1,
                                ReplaceFirst(expanded, fullMatch, dirRes.text),
                                stats \o dirRes.stats,
                                sectionNumber + Len(dirRes.stats))
        ELSE IF fileRes.err # "nil" THEN Failed(fileRes.err)
        ELSE IF fileRes.text # <<>>
        THEN expandMatches(content, turnNumber, matches, i + 1,
                           ReplaceFirst(expanded, fullMatch, fileRes.text),
                           stats \o fileRes.stats, sectionNumber + 1)
        ELSE expandMatches(content, turnNumber, matches, i + 1,
                           ReplaceFirst(expanded, fullMatch, <<>>),
                           stats, sectionNumber)

ExpandReferences(content, turnNumber) ==
    LET matches == FindAllReferences(content, 0)
    IN  IF matches = <<>>
        THEN [text |-> content, stats |-> <<>>, err |-> "nil"]
        ELSE expandMatches(content, turnNumber, matches, 1, content, <<>>, 1)

(***************************************************************************)
(* Markdown context of a reference (context.go).  No function of the       *)
(* expander above calls these functions.                                   *)
(***************************************************************************)
defaultContext == [HeaderLevel |-> 2, NumberPrefix |-> <<>>]

\* the number of # symbols the line starts with
hashCount(line) ==
    Cardinality({i \in 1..Len(line) : \A j \in 1..i : line[j] = "#"})

\* the end (exclusive, 0-based) of the longest run of digits and dots
\* starting at offset i
RECURSIVE NumberRunEnd(_, _)
NumberRunEnd(s, i) ==
    IF i < Len(s) /\ (IsDigit(s[i + 1]) \/ s[i + 1] = ".")
    THEN NumberRunEnd(s, i + 1) ELSE i

\* the first match of the pattern \[([0-9.]+)\] in the line: what it
\* captures, <<>> when there is none
numberPrefix(line) ==
    LET starts == {i \in 0..(Len(line) - 1) :
                      /\ line[i + 1] = "["
                      /\ NumberRunEnd(line, i + 1) > i + 1
                      /\ HasPrefix(From(line, NumberRunEnd(line, i + 1)), <<"]">>)}
    IN  IF starts = {} THEN <<>>
        ELSE SubSeq(line, MinOf(starts) + 2, NumberRunEnd(line, MinOf(starts) + 1))

parseHeading(line) ==
    [HeaderLevel |-> IF hashCount(line) > 0 /\ hashCount(line) <= 6
                     THEN MinOf({hashCount(line) + 1, 6})
                     ELSE defaultContext.HeaderLevel,
     NumberPrefix |-> numberPrefix(line)]

\* the last line before referencePos whose trimmed text starts with #
NearestHeadingLine(content, referencePos) ==
    LET lines == Split(UpTo(content, referencePos), "\n")
        headings == {i \in 1..Len(lines) : HasPrefix(TrimSpace(lines[i]), <<"#">>)}
    IN  IF headings = {} THEN [found |-> FALSE]
        ELSE [found |-> TRUE, line |-> TrimSpace(lines[MaxOf(headings)])]

detectMarkdownContext(content, referencePos) ==
    IF referencePos <= 0 \/ referencePos > Len(content) THEN defaultContext
    ELSE IF NearestHeadingLine(content, referencePos).found
    THEN parseHeading(NearestHeadingLine(content, referencePos).line)
    ELSE defaultContext

\* strings.Repeat for a one-byte string
Repeat(c, n) == [i \in 1..n |-> c]

\* fmt.Sprintf("%s %s %s\n(fence)%s\n%s\n(fence)", hashes, sectionNum, ...)
formatSection(ctx, turnNumber, sectionNumber, fileName, langHint, content) ==
    Repeat("#", ctx.HeaderLevel) \o <<" ", "[">>
        \o (IF ctx.NumberPrefix # <<>> THEN ctx.NumberPrefix ELSE Itoa(turnNumber))
        \o <<".">> \o Itoa(sectionNumber) \o <<"]", " ">> \o fileName
        \o <<"\n", BQ, BQ, BQ>> \o langHint \o <<"\n">> \o content
        \o <<"\n", BQ, BQ, BQ>>

(***************************************************************************)
(* The expander applied to inputs.                                         *)
(***************************************************************************)
\* files that are in every tree: two binary files and a text file that
\* quotes a reference in the working directory, and a directory data/
\* whose only file is binary
TopFiles ==
    { [path |-> <<"x", ".", "b", "i", "n">>,
       content |-> <<"a", NUL, "b">>,
       readable |-> TRUE],
      [path |-> <<"z", ".", "g", "o">>,
       content |-> <<NUL>>,
       readable |-> TRUE],
      [path |-> <<"a", ".", "t", "x", "t">>,
       content |-> <<"q", " ", "[", "[", "x", ".", "b", "i", "n", "]", "]">>,
       readable |-> TRUE],
      [path |-> <<"d", "a", "t", "a", "/", "b", "l", "o", "b", ".", "t", "x", "t">>,
       content |-> <<"b", NUL>>,
       readable |-> TRUE] }

\* groups of files below proj/; a tree holds any of the groups
FileGroups ==
    { { [path |-> <<"p", "r", "o", "j", "/", "a", ".", "g", "o">>,
             content |-> <<"x">>,
             readable |-> TRUE],
            [path |-> <<"p", "r", "o", "j", "/", "b", ".", "m", "i", "n", ".", "j", "s">>,
             content |-> <<"j">>,
             readable |-> TRUE] },
      { [path |-> <<"p", "r", "o", "j", "/", "b", ".", "t", "x", "t">>,
             content |-> <<"a", NUL>>,
             readable |-> TRUE],
            [path |-> <<"p", "r", "o", "j", "/", "n", "o", "t", "e", "s">>,
             content |-> <<"n">>,
             readable |-> TRUE],
            [path |-> <<"p", "r", "o", "j", "/", "l", "o", "c", "k", "e", "d", ".", "g",
               "o">>,
             content |-> <<"k">>,
             readable |-> FALSE] },
      { [path |-> <<"p", "r", "o", "j", "/", "s", "u", "b", "/", "c", ".", "g", "o">>,
             content |-> <<"/", "*", " ", "h", " ", "*", "/", "\n", "y">>,
             readable |-> TRUE],
            [path |-> <<"p", "r", "o", "j", "/", "s", "u", "b", "/", "a", "_", "t", "e",
               "s", "t", ".", "g", "o">>,
             content |-> <<"t">>,
             readable |-> TRUE],
            [path |-> <<"p", "r", "o", "j", "/", "s", "u", "b", "/", "M", "a", "k", "e",
               "f", "i", "l", "e">>,
             content |-> <<"m">>,
             readable |-> TRUE] },
      { [path |-> <<"p", "r", "o", "j", "/", "s", "u", "b", "/", "d", "e", "e", "p",
               "/", "d", ".", "g", "o">>,
             content |-> <<"z">>,
             readable |-> TRUE] },
      { [path |-> <<"p", "r", "o", "j", "/", "v", "e", "n", "d", "o", "r", "/", "c",
               ".", "g", "o">>,
             content |-> <<"v">>,
             readable |-> TRUE] },
      { [path |-> <<"p", "r", "o", "j", "/", "s", "u", "b", "/", "v", "e", "n", "d",
               "o", "r", "/", "w", ".", "g", "o">>,
             content |-> <<"w">>,
             readable |-> TRUE] } }

\* the directories above a path
Ancestors(path) == {UpTo(path, i) : i \in Occurrences(path, <<"/">>)}

\* the tree that holds the files and the directories above them
TreeOf(files) ==
    {[path |-> f.path, isDir |-> FALSE, readable |-> f.readable, content |-> f.content] :
        f \in files}
    \cup {[path |-> d, isDir |-> TRUE, readable |-> TRUE, content |-> <<>>] :
            d \in UNION {Ancestors(f.path) : f \in files}}

Trees == {TreeOf(TopFiles \cup UNION groups) : groups \in SUBSET FileGroups}

\* the lists of a user: GO written in capitals among the extensions, a
\* glob on a relative path among the exclude patterns, one excluded
\* directory
UserInclude ==
    [Extensions |-> (DefaultIncludeExtensions \ {<<"g", "o">>}) \cup {<<"G", "O">>},
     Patterns |-> DefaultIncludePatterns]

UserExclude ==
    [Patterns |-> DefaultExcludePatterns
                      \cup {<<"p", "r", "o", "j", "/", "s", "u", "b", "/", "M", "*">>},
     Directories |-> {<<"d", "e", "e", "p">>}]

\* configurations: the default lists or those of the user, any depth limit,
\* recursion by default or not, the filter on or off
Configs ==
    {[Defaults EXCEPT !.Expand.MaxDepth = d,
                      !.Expand.Recursive = r,
                      !.Expand.Include = l.Include,
                      !.Expand.Exclude = l.Exclude,
                      !.Filter.Enabled = f] :
        d \in 1..MaxDepthBound, r \in BOOLEAN, f \in BOOLEAN,
        l \in {[Include |-> Defaults.Expand.Include, Exclude |-> Defaults.Expand.Exclude],
               [Include |-> UserInclude, Exclude |-> UserExclude]}}

\* the directories a walk starts from: the project, a subdirectory, an
\* excluded directory, a file, a path that does not exist
WalkRoots ==
    { <<"p", "r", "o", "j">>,
      <<"p", "r", "o", "j", "/", "s", "u", "b">>,
      <<"p", "r", "o", "j", "/", "v", "e", "n", "d", "o", "r">>,
      <<"p", "r", "o", "j", "/", "a", ".", "g", "o">>,
      <<"n", "o", "w", "h", "e", "r", "e">> }

\* the turns references are expanded in
TurnContents ==
    { <<"[", "[", "a", ".", "t", "x", "t", "]", "]">>,
      <<"S", "e", "e", " ", "[", "[", "x", ".", "b", "i", "n", "]", "]">>,
      <<"[", "[", "a", ".", "t", "x", "t", "]", "]", " ", "t", "h", "e", "n",
        " ", "[", "[", "x", ".", "b", "i", "n", "]", "]">>,
      <<"[", "[", "z", ".", "g", "o", "]", "]", "[", "[", "p", "r", "o", "j",
        "/", "a", ".", "g", "o", "]", "]">>,
      <<"[", "[", "p", "r", "o", "j", "/", "]", "]", " ", "a", "n", "d", " ",
        "[", "[", "p", "r", "o", "j", "/", "*", "*", "/", "]", "]">>,
      <<"[", "[", "m", "i", "s", "s", "i", "n", "g", ".", "g", "o", "]", "]",
        " ", "[", "[", "x", ".", "b", "i", "n", "]", "]">>,
      <<"[", "[", "p", "r", "o", "j", "/", "a", ".", "g", "o", "]", "]", "[",
        "[", "p", "r", "o", "j", "/", "a", ".", "g", "o", "]", "]">>,
      <<"S", "e", "e", " ", "[", "[", "d", "a", "t", "a", "/", "]", "]">>,
      <<"#", "#", "#", " ", "[", "2", ".", "1", "]", " ", "N", "\n", "[",
          "[", "p", "r", "o", "j", "/", "a", ".", "g", "o", "]", "]">>,
      <<"n", "o", " ", "r", "e", "f", "e", "r", "e", "n", "c", "e", "s">> }

InitExpand ==
    /\ IdleStream /\ IdleAtomic /\ IdleMutator /\ IdleFilter /\ IdleChat /\ IdleParse /\ IdleSession /\ IdleRetry
    /\ tree \in Trees
    /\ cfg \in Configs
    /\ epc = "input"
    /\ call = <<>>
    /\ res = <<>>

\* a directory reference reaches the walker at depth 0
WalkDirectory ==
    /\ UNCHANGED notExpand
    /\ epc = "input"
    /\ \E dirPath \in WalkRoots, recursive \in BOOLEAN :
          /\ call' = [dirPath |-> dirPath, recursive |-> recursive]
          /\ res' = expandDirectoryWithOptions(dirPath, 1, 1, cfg.Expand, recursive, 0)
    /\ epc' = "walked"
    /\ UNCHANGED <<tree, cfg>>

ExpandTurn ==
    /\ UNCHANGED notExpand
    /\ epc = "input"
    /\ \E content \in TurnContents, turnNumber \in {MaxTurn} :
          /\ call' = [content |-> content, turnNumber |-> turnNumber]
          /\ res' = ExpandReferences(content, turnNumber)
    /\ epc' = "expanded"
    /\ UNCHANGED <<tree, cfg>>

NextExpand ==
    \/ WalkDirectory
    \/ ExpandTurn

(***************************************************************************)
(* The content filter applied to inputs.                                   *)
(***************************************************************************)
\* file contents: contents that start with a preserved directive, with a
\* header block, with both, with stacked or unclosed blocks, and plain code
FilterInputs ==
    { <<"/", "/", "g", "o", ":", "g", "e", "n", "e", "r", "a", "t", "e", " ",
        "x", "\n", "p", "a", "c", "k", "a", "g", "e", " ", "m", "a", "i",
        "n">>,
      <<"#", "!", "/", "b", "i", "n", "/", "s", "h", "\n", "e", "c", "h",
        "o", " ", "h", "i", "\n">>,
      <<"\"", "u", "s", "e", " ", "s", "t", "r", "i", "c", "t", "\"", "\n",
        "v", "a", "r", " ", "a">>,
      <<" ", " ", "/", "/", " ", "+", "b", "u", "i", "l", "d", " ", "l", "i",
        "n", "u", "x", "\n", "\n", "/", "*", " ", "c", " ", "*", "/", "\n",
        "c", "o", "d", "e">>,
      <<"/", "*", " ", "C", "o", "p", "y", "r", "i", "g", "h", "t", " ", "*",
        "/", "\n", "\n", "p", "a", "c", "k", "a", "g", "e", " ", "m", "a",
        "i", "n">>,
      <<"/", "*", " ", "a", " ", "*", "/", "\n", "/", "*", "*", " ", "b",
        " ", "*", "/", "\n", "c", "o", "d", "e">>,
      <<"/", "*", "!", " ", "k", "e", "e", "p", " ", "*", "/", "\n", "c",
        "o", "d", "e">>,
      <<"/", "*", " ", "o", "n", "l", "y", " ", "*", "/">>,
      <<"\"", "\"", "\"", "d", "o", "c", "\"", "\"", "\"", "\n", "c", "o",
        "d", "e">>,
      <<"p", "a", "c", "k", "a", "g", "e", " ", "m", "a", "i", "n", "\n",
        "/", "/", " ", "c", "\n", "x", "\n", "\n", "\n", "\n", "y">>,
      <<"<", "!", "-", "-", " ", "h", " ", "-", "-", ">", "t", "e", "x", "t">>,
      <<"/", "*", " ", "o", "p", "e", "n", "\n", "c", "o", "d", "e">>,
      <<>> }

\* the header patterns: the defaults, and a list of the user that
\* preserves blocks that start with /*!
HeaderFilters ==
    { [Remove |-> DefaultRemove, Preserve |-> DefaultPreserve],
      [Remove |-> DefaultRemove,
       Preserve |-> DefaultPreserve \cup {<<"/", "*", "!">>}] }

FilterConfigs ==
    {[Enabled |-> e, StripHeaders |-> h, StripAllComments |-> c, Header |-> hf] :
        e \in BOOLEAN, h \in BOOLEAN, c \in BOOLEAN, hf \in HeaderFilters}

InitFilter ==
    /\ IdleStream /\ IdleAtomic /\ IdleMutator /\ IdleExpand /\ IdleChat /\ IdleParse /\ IdleSession /\ IdleRetry
    /\ fcontent \in FilterInputs
    /\ fcfg \in FilterConfigs
    /\ fpc = "input"
    /\ fout = <<>>

ApplyFilterContent ==
    /\ UNCHANGED notFilter
    /\ fpc = "input"
    /\ fout' = FilterContent(fcontent, <<"f">>, fcfg)
    /\ fpc' = "filtered"
    /\ UNCHANGED <<fcontent, fcfg>>

NextFilter == ApplyFilterContent

(***************************************************************************)
(* The chat run.                                                           *)
(***************************************************************************)
\* the index of the last Human turn, counted from 1; 0 when there is none
\* (the code counts from 0 and uses -1)
lastHumanIndex(turns) ==
    LET humans == {i \in 1..Len(turns) : turns[i].Role = RoleHuman}
    IN  IF humans = {} THEN 0 ELSE MaxOf(humans)

\* the checks of a parsed session before anything is expanded
validateSession(parsed) ==
    IF parsed.err THEN [msg |-> "failed to parse session", cause |-> "no turns found in session"]
    ELSE IF lastHumanIndex(parsed.turns) = 0
    THEN [msg |-> "no human turn found in session.md", cause |-> "nil"]
    ELSE IF parsed.turns[lastHumanIndex(parsed.turns)].Content = <<>>
    THEN [msg |-> "turn has no content", cause |-> "nil"]
    ELSE NoError

\* the loop over the turns, from the i-th on, that skips failed expansions
RECURSIVE expandHumanTurnsLenient(_, _, _, _, _)
expandHumanTurnsLenient(turns, i, originalContent, updated, total) ==
    IF i > Len(turns)
    THEN [err |-> NoError, turns |-> turns, updatedContent |-> updated,
          totalExpansions |-> total]
    ELSE expandHumanTurnsLenient(turns, i + 1, originalContent, updated, total)

\* the loop over the turns, from the i-th on
RECURSIVE expandHumanTurns(_, _, _, _, _)
expandHumanTurns(turns, i, originalContent, updated, total) ==
    IF i > Len(turns)
    THEN [err |-> NoError, turns |-> turns, updatedContent |-> updated,
          totalExpansions |-> total]
    ELSE IF turns[i].Role # RoleHuman
    THEN expandHumanTurns(turns, i + 1, originalContent, updated, total)
    ELSE
    LET after(exp) ==
            IF exp.err # "nil"
            THEN [err |-> [msg |-> "failed to expand references", cause |-> exp.err],
                  turns |-> turns, updatedContent |-> updated,
                  totalExpansions |-> total]
            ELSE IF Len(exp.stats) > 0
            THEN expandHumanTurns([turns EXCEPT ![i].Content = exp.text], i + 1,
                     originalContent,
                     IF i = lastHumanIndex(turns)
                     THEN ReplaceLastHumanTurn(originalContent, turns[i].Number,
                                               exp.text)
                     ELSE updated,
                     total + Len(exp.stats))
            ELSE expandHumanTurns(turns, i + 1, originalContent, updated, total)
    IN  after(ExpandReferences(turns[i].Content, turns[i].Number))

\* session documents: without a heading, without a Human turn, with an
\* empty last Human turn, with and without references, with a reference
\* that fails in an earlier turn, with one in the last turn after an
\* expanded earlier turn, documents whose headings have one hash, a
\* document that quotes a heading in the middle of a line, and a document
\* that ends with an AI turn
ChatDocs ==
    { <<"#", " ", "[", "1", "]", " ", "H", "u", "m", "a", "n", "\n", "\n",
        "h", "i", "\n", "\n", "#", " ", "[", "2", "]", " ", "A", "I", "\n",
        "\n", "o", "k", "\n">>,
      <<"#", "#", " ", "[", "1", "]", " ", "H", "u", "m", "a", "n", "\n",
        "\n", "[", "[", "p", "r", "o", "j", "/", "a", ".", "g", "o", "]",
        "]", "\n", "\n", "#", "#", " ", "[", "2", "]", " ", "A", "I", "\n",
        "\n", "o", "k", "\n", "\n", "#", "#", " ", "[", "3", "]", " ", "H",
        "u", "m", "a", "n", "\n", "\n", "[", "[", "m", "i", "s", "s", "i",
        "n", "g", ".", "g", "o", "]", "]", "\n">>,
      <<"s", "e", "e", " ", "#", " ", "[", "1", "]", " ", "H", "u", "m", "a",
        "n", " ", "t", "h", "e", "r", "e", "\n">>,
      <<"#", " ", "[", "1", "]", " ", "H", "u", "m", "a", "n", "\n", "\n",
        "h", "i", "\n">>,
      <<>>,
      <<"n", "o", "t", "e", "s", " ", "o", "n", "l", "y", "\n">>,
      <<"#", "#", " ", "[", "1", "]", " ", "A", "I", "\n", "\n", "h", "i",
        "\n">>,
      <<"#", "#", " ", "[", "1", "]", " ", "H", "u", "m", "a", "n", "\n",
        "\n">>,
      <<"#", "#", " ", "[", "1", "]", " ", "H", "u", "m", "a", "n", "\n",
        "\n", " ", " ", "\n", "\n", "#", "#", " ", "[", "2", "]", " ", "A",
        "I", "\n", "\n", "o", "k", "\n">>,
      <<"#", "#", " ", "[", "1", "]", " ", "H", "u", "m", "a", "n", "\n",
        "\n", "h", "i", "\n">>,
      <<"#", "#", " ", "[", "1", "]", " ", "H", "u", "m", "a", "n", "\n",
        "\n", "[", "[", "p", "r", "o", "j", "/", "a", ".", "g", "o", "]",
        "]", "\n">>,
      <<"#", "#", " ", "[", "1", "]", " ", "H", "u", "m", "a", "n", "\n",
        "\n", "[", "[", "m", "i", "s", "s", "i", "n", "g", ".", "g", "o",
        "]", "]", "\n", "\n", "#", "#", " ", "[", "2", "]", " ", "A", "I",
        "\n", "\n", "o", "k", "\n", "\n", "#", "#", " ", "[", "3", "]", " ",
        "H", "u", "m", "a", "n", "\n", "\n", "[", "[", "p", "r", "o", "j",
        "/", "a", ".", "g", "o", "]", "]", "\n">>,
      <<"#", "#", " ", "[", "1", "]", " ", "H", "u", "m", "a", "n", "\n",
        "\n", "[", "[", "p", "r", "o", "j", "/", "a", ".", "g", "o", "]",
        "]", "\n", "\n", "#", "#", " ", "[", "2", "]", " ", "A", "I", "\n",
        "\n", "o", "k", "\n", "\n", "#", "#", " ", "[", "3", "]", " ", "H",
        "u", "m", "a", "n", "\n", "\n", "[", "[", "p", "r", "o", "j", "/",
        "]", "]", "\n">>,
      <<"#", "#", " ", "[", "1", "]", " ", "H", "u", "m", "a", "n", "\n",
        "\n", "S", "e", "e", " ", "[", "[", "x", ".", "b", "i", "n", "]",
        "]", "\n">>,
      <<"#", " ", "[", "1", "]", " ", "H", "u", "m", "a", "n", "\n", "\n",
        "[", "[", "p", "r", "o", "j", "/", "a", ".", "g", "o", "]", "]",
        "\n">> }

\* working directories: without proj/, with proj/a.go, and with a proj/
\* that holds a file the run cannot read
ChatTrees ==
    { TreeOf(TopFiles),
      TreeOf(TopFiles \cup
             {[path |-> <<"p", "r", "o", "j", "/", "a", ".", "g", "o">>,
               content |-> <<"x">>, readable |-> TRUE]}),
      TreeOf(TopFiles \cup
             {[path |-> <<"p", "r", "o", "j", "/", "a", ".", "g", "o">>,
               content |-> <<"x">>, readable |-> FALSE]}) }

InitChat ==
    /\ IdleStream /\ IdleAtomic /\ IdleMutator /\ IdleFilter /\ IdleParse /\ IdleSession /\ IdleRetry
    /\ tree \in ChatTrees
    /\ cfg = Defaults
    /\ epc = "idle" /\ call = <<>> /\ res = <<>>
    /\ sessionMd \in {[exists |-> FALSE, text |-> <<>>]}
                        \cup {[exists |-> TRUE, text |-> d] : d \in ChatDocs}
    /\ chatContent = <<>>
    /\ chatTurns = <<>>
    /\ updatedContent = <<>>
    /\ totalExpansions = 0
    /\ chatPc = "start"
    /\ chatErr = NoError
    /\ invocations = 0

\* os.ReadFile("session.md")
ReadSession ==
    /\ UNCHANGED notChat
    /\ chatPc = "start"
    /\ IF sessionMd.exists
       THEN /\ chatContent' = sessionMd.text
            /\ chatPc' = "read"
            /\ UNCHANGED chatErr
       ELSE /\ chatErr' = [msg |-> "no session.md found", cause |-> "nil"]
            /\ chatPc' = "failed"
            /\ UNCHANGED chatContent
    /\ UNCHANGED <<sessionMd, chatTurns, updatedContent, totalExpansions, invocations>>

\* the session is parsed and checked
ValidateSession ==
    /\ UNCHANGED notChat
    /\ chatPc = "read"
    /\ LET parsed == ParseAllTurns(chatContent)
           err == validateSession(parsed)
       IN  IF err # NoError
           THEN /\ chatErr' = err
                /\ chatPc' = "failed"
                /\ UNCHANGED chatTurns
           ELSE /\ chatTurns' = parsed.turns
                /\ chatPc' = "validated"
                /\ UNCHANGED chatErr
    /\ UNCHANGED <<sessionMd, chatContent, updatedContent, totalExpansions, invocations>>

\* the references of every Human turn are expanded
ExpandSession ==
    /\ UNCHANGED notChat
    /\ chatPc = "validated"
    /\ LET outcome(r) ==
               IF r.err # NoError
               THEN /\ chatErr' = r.err
                    /\ chatPc' = "failed"
                    /\ UNCHANGED <<chatTurns, updatedContent, totalExpansions>>
               ELSE /\ chatTurns' = r.turns
                    /\ updatedContent' = r.updatedContent
                    /\ totalExpansions' = r.totalExpansions
                    /\ chatPc' = "expanded"
                    /\ UNCHANGED chatErr
       IN  outcome(expandHumanTurns(chatTurns, 1, chatContent, chatContent, 0))
    /\ UNCHANGED <<sessionMd, chatContent, invocations>>

\* nothing was expanded: nothing is written
SkipWrite ==
    /\ UNCHANGED notChat
    /\ chatPc = "expanded"
    /\ totalExpansions = 0
    /\ chatPc' = "written"
    /\ UNCHANGED <<sessionMd, chatContent, chatTurns, updatedContent,
                   totalExpansions, chatErr, invocations>>

\* session.WriteAtomic("session.md", updatedContent) succeeds
WriteExpanded ==
    /\ UNCHANGED notChat
    /\ chatPc = "expanded"
    /\ totalExpansions > 0
    /\ sessionMd' = [exists |-> TRUE, text |-> updatedContent]
    /\ chatPc' = "written"
    /\ UNCHANGED <<chatContent, chatTurns, updatedContent, totalExpansions,
                   chatErr, invocations>>

\* session.WriteAtomic fails and leaves session.md as it was
WriteExpandedFails ==
    /\ UNCHANGED notChat
    /\ chatPc = "expanded"
    /\ totalExpansions > 0
    /\ chatErr' = [msg |-> "failed to update session.md", cause |-> "write failed"]
    /\ chatPc' = "failed"
    /\ UNCHANGED <<sessionMd, chatContent, chatTurns, updatedContent,
                   totalExpansions, invocations>>

\* session.StreamResponse with bedrock.StreamToClaudeWithHistory is called
InvokeModel ==
    /\ UNCHANGED notChat
    /\ chatPc = "written"
    /\ invocations' = invocations + 1
    /\ chatPc' = "invoked"
    /\ UNCHANGED <<sessionMd, chatContent, chatTurns, updatedContent,
                   totalExpansions, chatErr>>

NextChat ==
    \/ ReadSession
    \/ ValidateSession
    \/ ExpandSession
    \/ SkipWrite
    \/ WriteExpanded
    \/ WriteExpandedFails
    \/ InvokeModel

(***************************************************************************)
(* The turn parser applied to inputs.                                      *)
(***************************************************************************)
\* lines of a document: the two headings, a heading after one more hash,
\* a heading in the middle of a line, a heading followed by a character,
\* a heading without digits, and plain text
ParseLines ==
    { <<"#", " ", "[", "1", "]", " ", "H", "u", "m", "a", "n">>,
      <<"#", " ", "[", "2", "]", " ", "A", "I">>,
      <<"#", "#", " ", "[", "1", "]", " ", "H", "u", "m", "a", "n">>,
      <<"s", "e", "e", " ", "#", " ", "[", "1", "]", " ", "H", "u", "m", "a",
        "n">>,
      <<"#", " ", "[", "1", "]", " ", "H", "u", "m", "a", "n", "s">>,
      <<"#", " ", "[", "x", "]", " ", "A", "I">>,
      <<"h", "i">> }

\* documents of up to MaxDocLines lines
ParseDocs ==
    {Join(ls, <<"\n">>) : ls \in UNION {[1..n -> ParseLines] : n \in 1..MaxDocLines}}

InitParse ==
    /\ IdleStream /\ IdleAtomic /\ IdleMutator /\ IdleExpand /\ IdleFilter /\ IdleChat /\ IdleSession /\ IdleRetry
    /\ pdoc \in ParseDocs
    /\ ppc = "input"
    /\ parseResult = <<>>

ApplyParseAllTurns ==
    /\ UNCHANGED notParse
    /\ ppc = "input"
    /\ parseResult' = ParseAllTurns(pdoc)
    /\ ppc' = "parsed"
    /\ UNCHANGED pdoc

NextParse == ApplyParseAllTurns

(***************************************************************************)
(* A session over several runs.                                            *)
(***************************************************************************)
\* InitCmd.Run: content := "# [1] Human\n\n"
InitialSession == <<"#", " ", "[", "1", "]", " ", "H", "u", "m", "a", "n",
                    "\n", "\n">>

\* what the user types at the end of the last Human turn: text, a
\* reference, and text with a hash and brackets that is no turn heading
UserTexts ==
    { <<"h", "i", "\n">>,
      <<"s", "e", "e", " ", "[", "[", "p", "r", "o", "j", "/", "a", ".", "g",
        "o", "]", "]">>,
      <<"x", " ", "#", " ", "[", "y", "]", " ", "A", "I">> }

\* the text deltas of a response: a word, and blank space
ResponseChunks ==
    { <<"o", "k">>,
      <<" ">> }

\* the deltas a run receives before it ends: one, or the two in a row
ResponseStreams ==
    {<<c>> : c \in ResponseChunks} \cup {<<<<"o", "k">>, <<" ">>>>}

\* (*StreamWriter).WriteChunk with writes that succeed
WriteChunkDone(f, s, chunk) ==
    LET body(h) == IF h.done THEN h.ret
                   ELSE WriteChunkBody(h.ret.file, h.ret.sw, chunk, "all")
    IN  body(WriteChunkHead(f, s, chunk, "all"))

\* the stream loop over the deltas from the i-th on: each delta counts
\* len(chunk)/4 tokens and goes to the callback
RECURSIVE streamChunks(_, _, _, _, _)
streamChunks(f, s, chunks, i, tokens) ==
    IF i > Len(chunks) THEN [file |-> f, sw |-> s, tokens |-> tokens]
    ELSE LET next(r) == streamChunks(r.file, r.sw, chunks, i + 1,
                                     tokens + Len(chunks[i]) \div 4)
         IN  next(WriteChunkDone(f, s, chunks[i]))

\* session.StreamResponse for a run that receives the deltas and then ends
\* or is cancelled; every write succeeds
StreamResponse(content, turnNumber, chunks, interrupted) ==
    LET closed(st) == Close(st.file, st.sw, interrupted, st.tokens, "all", TRUE).file
    IN  closed(streamChunks(content, NewStreamWriter(turnNumber), chunks, 1, 0))

\* ChatCmd.Run on the document content: the document it leaves and how the
\* run ended
ChatRun(content, chunks, interrupted) ==
    LET streamed(r) ==
            IF r.err # NoError THEN [doc |-> content, last |-> "failed"]
            ELSE [doc |-> StreamResponse(
                              IF r.totalExpansions > 0 THEN r.updatedContent
                              ELSE content,
                              NextTurnNumber(content), chunks, interrupted),
                  last |-> IF interrupted THEN "interrupted" ELSE "complete"]
        checked(parsed) ==
            IF validateSession(parsed) # NoError
            THEN [doc |-> content, last |-> "failed"]
            ELSE streamed(expandHumanTurns(parsed.turns, 1, content, content, 0))
    IN  checked(ParseAllTurns(content))

InitSession ==
    /\ IdleStream /\ IdleAtomic /\ IdleMutator /\ IdleFilter /\ IdleChat /\ IdleParse /\ IdleRetry
    /\ tree \in {t \in ChatTrees : \E n \in t : n.path = <<"p", "r", "o", "j">> /\ n.isDir}
                 \cap {t \in ChatTrees : \A n \in t : n.isDir \/ n.readable}
    /\ cfg = Defaults
    /\ epc = "idle" /\ call = <<>> /\ res = <<>>
    /\ sdoc = InitialSession
    /\ sruns = 0
    /\ slast = "init"

\* the user adds text at the end of the last Human turn and saves
UserAddsText ==
    /\ UNCHANGED notSession
    /\ slast \in {"init", "complete", "interrupted"}
    /\ \E t \in UserTexts : sdoc' = sdoc \o t
    /\ slast' = "edit"
    /\ UNCHANGED sruns

\* ask chat: the run fails before it streams, or streams a response that
\* completes or is cancelled
RunChat ==
    /\ UNCHANGED notSession
    /\ slast # "failed"
    /\ sruns < MaxRuns
    /\ \E chunks \in ResponseStreams, interrupted \in BOOLEAN :
          LET ends(r) ==
                  /\ sdoc' = r.doc
                  /\ slast' = r.last
                  /\ sruns' = IF r.last = "failed" THEN sruns ELSE sruns + 1
          IN  ends(ChatRun(sdoc, chunks, interrupted))

NextSession ==
    \/ UserAddsText
    \/ RunChat

(***************************************************************************)
(* Inference profiles and the retry of an invocation.                      *)
(***************************************************************************)
\* getModelCapabilities(modelID).UseSystemProfile
UseSystemProfile(id) == Contains(ToLower(id), <<"s", "o", "n", "n", "e", "t", "-", "4">>)

\* deriveProfileName
deriveProfileName(id) ==
    IF Contains(ToLower(id), <<"o", "p", "u", "s">>) THEN <<"a", "s", "k", "-", "o", "p", "u", "s">>
    ELSE IF Contains(ToLower(id), <<"s", "o", "n", "n", "e", "t">>)
    THEN <<"a", "s", "k", "-", "s", "o", "n", "n", "e", "t">>
    ELSE IF Contains(ToLower(id), <<"h", "a", "i", "k", "u">>)
    THEN <<"a", "s", "k", "-", "h", "a", "i", "k", "u">>
    ELSE IF Len(Split(id, ".")) >= 3
    THEN <<"a", "s", "k", "-">> \o Split(id, ".")[3]
    ELSE <<"a", "s", "k", "-", "d", "e", "f", "a", "u", "l", "t">>

\* getCachedProfile: the ARN of a fresh entry under the key
getCachedProfile(c, key) ==
    IF \E e \in c : e.key = key /\ e.fresh
    THEN [found |-> TRUE, arn |-> (CHOOSE e \in c : e.key = key /\ e.fresh).arn]
    ELSE [found |-> FALSE, arn |-> "none"]

\* setCachedProfile: the entry under the key is replaced by a new one
setCachedProfile(c, key, arn) ==
    {e \in c : e.key # key} \cup {[key |-> key, arn |-> arn, fresh |-> TRUE]}

\* invalidateCachedProfile: delete(cache.Profiles, profileName)
invalidateCachedProfile(c, profileName) ==
    {e \in c : e.key # profileName}

\* what AWS answers when a profile is looked up or created
AwsAnswers == {"arn:new", "fails"}

\* the cache key, the lookup and the outcome of a call of ensureProfile
Ensured(c, key, aws) ==
    LET hit == getCachedProfile(c, key)
    IN  IF hit.found
        THEN [arn |-> hit.arn, cache |-> c, err |-> FALSE,
              lookup |-> [key |-> key, found |-> TRUE]]
        ELSE IF aws = "fails"
        THEN [arn |-> "none", cache |-> c, err |-> TRUE,
              lookup |-> [key |-> key, found |-> FALSE]]
        ELSE [arn |-> aws, cache |-> setCachedProfile(c, key, aws), err |-> FALSE,
              lookup |-> [key |-> key, found |-> FALSE]]

\* ensureSystemProfile: the cache, then discovery
ensureSystemProfile(c, id, aws) ==
    Ensured(c, <<"s", "y", "s", "t", "e", "m", "-">> \o deriveProfileName(id), aws)

\* ensureCustomProfile: the cache, then the profile found by name or created
ensureCustomProfile(c, id, aws) ==
    Ensured(c, deriveProfileName(id), aws)

ensureProfile(c, id, aws) ==
    IF UseSystemProfile(id) THEN ensureSystemProfile(c, id, aws)
    ELSE ensureCustomProfile(c, id, aws)

\* the models of a configuration
ModelIDs ==
    { <<"a", "n", "t", "h", "r", "o", "p", "i", "c", ".", "c", "l", "a", "u",
        "d", "e", "-", "s", "o", "n", "n", "e", "t", "-", "4", "-", "5", "-",
        "2", "0", "2", "5", "0", "9", "2", "9", "-", "v", "1", ":", "0">>,
      <<"a", "n", "t", "h", "r", "o", "p", "i", "c", ".", "c", "l", "a", "u",
        "d", "e", "-", "o", "p", "u", "s", "-", "4", "-", "5", "-", "2", "0",
        "2", "5", "1", "1", "0", "1", "-", "v", "1", ":", "0">>,
      <<"a", "n", "t", "h", "r", "o", "p", "i", "c", ".", "c", "l", "a", "u",
        "d", "e", "-", "h", "a", "i", "k", "u", "-", "4", "-", "5", "-", "2",
        "0", "2", "5", "1", "0", "0", "1", "-", "v", "1", ":", "0">>,
      <<"m", "e", "t", "a", ".", "l", "l", "a", "m", "a", "3", ".", "7", "0",
        "b">> }

\* the keys a cache file may hold entries under
CacheKeys ==
    { <<"a", "s", "k", "-", "s", "o", "n", "n", "e", "t">>,
      <<"s", "y", "s", "t", "e", "m", "-", "a", "s", "k", "-", "s", "o", "n",
        "n", "e", "t">>,
      <<"a", "s", "k", "-", "o", "p", "u", "s">> }

\* cache files: per key no entry, a fresh entry, or one older than 30 days
Caches ==
    {c \in SUBSET [key : CacheKeys, arn : {"arn:old"}, fresh : BOOLEAN] :
        \A e1, e2 \in c : e1.key = e2.key => e1 = e2}

InitRetry ==
    /\ IdleStream /\ IdleAtomic /\ IdleMutator /\ IdleExpand /\ IdleFilter /\ IdleChat
    /\ IdleParse /\ IdleSession
    /\ modelID \in ModelIDs
    /\ cache \in Caches
    /\ rpc = "call"
    /\ isRetry = FALSE
    /\ calls = 0
    /\ profileArn = "none"
    /\ lookups = <<>>
    /\ attempts = <<>>

\* streamToClaudeWithRetry up to the request: on a retry the cache entry is
\* invalidated, then ensureProfile gives the profile ARN
BeginCall ==
    /\ UNCHANGED notRetry
    /\ rpc = "call"
    /\ calls' = calls + 1
    /\ \E aws \in AwsAnswers :
          LET ensured(r) ==
                  /\ cache' = r.cache
                  /\ lookups' = Append(lookups, r.lookup)
                  /\ profileArn' = r.arn
                  /\ rpc' = IF r.err THEN "failed" ELSE "converse"
          IN  ensured(ensureProfile(
                  IF isRetry
                  THEN invalidateCachedProfile(cache, deriveProfileName(modelID))
                  ELSE cache,
                  modelID, aws))
    /\ UNCHANGED <<modelID, isRetry, attempts>>

\* client.ConverseStream succeeds: the response streams
ConverseStreamStarts ==
    /\ UNCHANGED notRetry
    /\ rpc = "converse"
    /\ attempts' = Append(attempts, [arn |-> profileArn, outcome |-> "ok"])
    /\ rpc' = "streaming"
    /\ UNCHANGED <<modelID, cache, isRetry, calls, profileArn, lookups>>

\* client.ConverseStream fails with an error that names the profile: the
\* first call calls streamToClaudeWithRetry again, a retry returns the error
ConverseStreamProfileError ==
    /\ UNCHANGED notRetry
    /\ rpc = "converse"
    /\ attempts' = Append(attempts, [arn |-> profileArn, outcome |-> "profile"])
    /\ IF ~isRetry
       THEN isRetry' = TRUE /\ rpc' = "call"
       ELSE isRetry' = isRetry /\ rpc' = "failed"
    /\ UNCHANGED <<modelID, cache, calls, profileArn, lookups>>

\* client.ConverseStream fails with another error
ConverseStreamOtherError ==
    /\ UNCHANGED notRetry
    /\ rpc = "converse"
    /\ attempts' = Append(attempts, [arn |-> profileArn, outcome |-> "other"])
    /\ rpc' = "failed"
    /\ UNCHANGED <<modelID, cache, isRetry, calls, profileArn, lookups>>

NextRetry ==
    \/ BeginCall
    \/ ConverseStreamStarts
    \/ ConverseStreamProfileError
    \/ ConverseStreamOtherError

(***************************************************************************)
(* Specifications: one per part of the program.                            *)
(***************************************************************************)
SpecStream == InitStream /\ [][NextStream]_vars

SpecStreamEdited == InitStream /\ [][NextStreamEdited]_vars

SpecAtomic == InitAtomic /\ [][NextAtomic]_vars

SpecMutator == InitMutator /\ [][NextMutator]_vars

SpecExpand == InitExpand /\ [][NextExpand]_vars

SpecFilter == InitFilter /\ [][NextFilter]_vars

SpecChat == InitChat /\ [][NextChat]_vars

SpecParse == InitParse /\ [][NextParse]_vars

SpecSession == InitSession /\ [][NextSession]_vars

SpecRetry == InitRetry /\ [][NextRetry]_vars


(***************************************************************************)
(* The document format, as the specification words it.                     *)
(***************************************************************************)
\* the boundary text  # [n] Human  or  # [n] AI
TurnHeading(n, role) == <<"#", " ", "[">> \o Itoa(n) \o <<"]", " ">> \o role

\* an AI block appended to a document: the heading, a blank line, and the
\* body inside a fence of four backticks labelled markdown
ExpectedAIOpen(n) ==
    <<"\n", "\n">> \o TurnHeading(n, RoleAI) \o <<"\n", "\n">> \o FenceOpenNL

ExpectedAIBlock(n, body) ==
    ExpectedAIOpen(n) \o body \o <<"\n">> \o FenceClose \o <<"\n">>

ExpectedHumanBoundary(n) ==
    <<"\n", "\n">> \o TurnHeading(n, RoleHuman) \o <<"\n", "\n">>

ExpectedMarker(n) ==
    <<"\n", "[", "I", "n", "t", "e", "r", "r", "u", "p", "t", "e", "d", " ",
      "a", "f", "t", "e", "r", " ">> \o Itoa(n) \o <<" ", "t", "o", "k", "e", "n", "s", "]">>

Prefixes(s) == {UpTo(s, j) : j \in 0..Len(s)}

(***************************************************************************)
(* Claims about streaming.                                                 *)
(***************************************************************************)
\* C1: when the stream of turn N ends with no cancellation and no error
\* after non-empty chunks c1..ck (k >= 1) went through WriteChunk, the text
\* appended to the document is the AI block of turn N whose fenced body is
\* exactly c1..ck, followed by the Human boundary of turn N+1.
C1_CompleteStreamAppendsBlock ==
    (pc = "done" /\ streamErr = "nil" /\ ~ioFailed /\ accepted # <<>>)
        => /\ file = base \o ExpectedAIBlock(sw.turnNumber, Flatten(accepted))
                          \o ExpectedHumanBoundary(sw.turnNumber + 1)
           /\ result = "nil"

\* a complete stream of two chunks into turn 10
C1_Witness ==
    /\ pc = "done" /\ streamErr = "nil" /\ ~ioFailed
    /\ Len(accepted) = 2 /\ sw.turnNumber = 10 /\ ~ctxDone

\* C2: when the stream function reports the cancellation after at least one
\* non-empty chunk was written, the final AI body is the chunks written
\* before it followed by one marker [Interrupted after N tokens], the fence
\* is closed, the boundary of the next Human turn follows, and
\* StreamResponse returns no error; the cancellation itself is never what
\* StreamResponse returns.
C2_CancelledStreamIsMarked ==
    /\ (pc = "done" /\ streamErr = "context canceled" /\ sw.contentWritten /\ ~ioFailed)
          => /\ file = base \o ExpectedAIBlock(sw.turnNumber,
                                   Flatten(accepted) \o ExpectedMarker(totalTokens))
                            \o ExpectedHumanBoundary(sw.turnNumber + 1)
             /\ result = "nil"
    /\ (pc = "done" /\ streamErr = "context canceled")
          => result \in {"nil", "failed to close stream"}

\* a stream cancelled after one chunk with a token count that is not 0
C2_Witness ==
    /\ pc = "done" /\ streamErr = "context canceled" /\ ~ioFailed
    /\ Len(accepted) >= 1 /\ totalTokens > 0 /\ result = "nil"

\* C3: wherever the process stops during the streaming phase, the document
\* on disk parses into turns: every turn of the document the run started
\* from is there unchanged, and once the header is on disk the next turn
\* is the AI turn of this run, holding (white space trimmed, as the parser
\* trims every turn) a prefix of the streamed chunks.
C3_TruncatedDocumentParses ==
    (pc # "done" /\ ~ioFailed)
        => LET before == ParseAllTurns(base).turns
               now == ParseAllTurns(file)
               k == Len(before)
           IN  /\ ~now.err
               /\ Len(now.turns) >= k
               /\ \A i \in 1..k : now.turns[i] = before[i]
               /\ ~sw.headerWritten => Len(now.turns) = k
               /\ sw.headerWritten =>
                     /\ Len(now.turns) > k
                     /\ now.turns[k + 1].Number = sw.turnNumber
                     /\ now.turns[k + 1].Role = RoleAI
                     /\ \E q \in Prefixes(Flatten(accepted)) :
                           now.turns[k + 1].Content = TrimSpace(q)

\* the process stopped after two chunks were flushed, before Close
C3_Witness ==
    /\ pc = "exited" /\ ~ioFailed /\ Len(accepted) = 2 /\ sw.headerWritten
    /\ ParseAllTurns(file).turns[Len(ParseAllTurns(base).turns) + 1].Content # <<>>

\* C4: whenever WriteChunk has returned without error, the file holds the
\* AI header and every chunk accepted so far and the writer's buffer is
\* empty: nothing stays buffered across a later chunk or a cancellation.
C4_ChunksFlushedOnReceipt ==
    /\ accepted # <<>> =>
          HasPrefix(file, base \o ExpectedAIOpen(sw.turnNumber) \o Flatten(accepted))
    /\ ~ioFailed => sw.buf = <<>>

\* the cancellation is seen after two chunks were accepted
C4_Witness ==
    /\ pc = "close" /\ streamErr = "context canceled" /\ Len(accepted) = 2 /\ ~ioFailed

(***************************************************************************)
(* Claims about WriteAtomic.                                               *)
(***************************************************************************)
\* C5: at every point of WriteAtomic (a failed write of the temporary
\* file, a failed rename, a stop between the steps) the target path holds
\* the complete previous content or the complete new content, and when
\* WriteAtomic returns an error the target still holds the previous content.
C5_WriteAtomicIsAtomic ==
    apc # "idle" =>
        /\ fs[SessionPath] \in {prevTarget, FileOf(newContent)}
        /\ (apc = "done" /\ aerr) => fs[SessionPath] = prevTarget
        /\ (apc = "done" /\ ~aerr) => fs[SessionPath] = FileOf(newContent)

\* the write of the temporary file failed half way over an existing target
C5_Witness ==
    /\ apc = "done" /\ aerr /\ prevTarget.exists /\ prevTarget.data # newContent
    /\ fs[TmpPath(SessionPath)].exists
    /\ fs[TmpPath(SessionPath)].data # newContent
    /\ fs[TmpPath(SessionPath)].data # <<>>

(***************************************************************************)
(* Claims about the document mutators.                                     *)
(***************************************************************************)
\* C8 (as claimed): for every document and response, parsing the document that
\* AppendAIResponse(document, n, response) returns yields a last turn with
\* number n, role AI and the trimmed response as content.
C8_AppendThenParseRoundTrip ==
    mpc = "appended" =>
        LET p == ParseAllTurns(out1)
        IN  /\ ~p.err
            /\ p.turns[Len(p.turns)] =
                  [Number |-> turnNo, Role |-> RoleAI, Content |-> TrimSpace(text)]

\* C9 (as claimed): applying ReplaceLastHumanTurn twice with the same turn number and
\* content gives the same document as applying it once.
C9_ReplaceIsIdempotent ==
    mpc = "replaced twice" => out2 = out1

(***************************************************************************)
(* Claims about the reference expander.                                    *)
(***************************************************************************)
\* the file lies below a directory whose name is an excluded name
UnderExcludedDirectory(path) ==
    \E k \in 1..(Len(Split(path, "/")) - 1) :
        Split(path, "/")[k] \in cfg.Expand.Exclude.Directories

\* the end of the heading of the section of a file
HeadingEndOf(path) == <<"]", " ">> \o path \o <<"\n">>

ReturnedFiles == {res.stats[i].File : i \in 1..Len(res.stats)}

\* C6: whatever the policy, and with recursion on or off, the walker returns
\* no file that lies below a directory whose name is an excluded directory
\* name: there is no FileStat and no section for it.
C6_ExcludedDirectoriesNeverReturned ==
    epc = "walked" =>
        \A n \in tree :
            (~n.isDir /\ UnderExcludedDirectory(n.path)) =>
                /\ n.path \notin ReturnedFiles
                /\ ~Contains(res.text, HeadingEndOf(n.path))

C6_Witness ==
    /\ epc = "walked"
    /\ call.recursive
    /\ res.err = "nil"
    /\ Len(res.stats) >= 2
    /\ \E n \in tree :
          /\ ~n.isDir
          /\ HasPrefix(n.path, call.dirPath \o <<"/">>)
          /\ UnderExcludedDirectory(n.path)
          /\ shouldIncludeFileUnchecked(Base(n.path), n.path, cfg.Expand)

\* the number of directories between the root of the walk and a file
LevelsBelow(root, path) == Len(Split(path, "/")) - Len(Split(root, "/")) - 1

\* the files a walk from root is to return: readable text files the policy
\* includes, no more than maxDepth - 1 directories below the root, below
\* no excluded or unreadable directory
Eligible(root, maxDepth, recursive) ==
    {n.path : n \in
        {m \in tree :
            /\ ~m.isDir /\ m.readable /\ ~isBinary(m.content)
            /\ HasPrefix(m.path, root \o <<"/">>)
            /\ shouldIncludeFile(Base(m.path), m.path, cfg.Expand)
            /\ LevelsBelow(root, m.path) < maxDepth
            /\ recursive \/ LevelsBelow(root, m.path) = 0
            /\ \A a \in Ancestors(m.path) :
                  (Len(a) > Len(root)) =>
                      /\ ~isExcludedDirectory(Base(a), cfg.Expand)
                      /\ NodeAt(a).readable}}

RootIsDirectory ==
    /\ Exists(call.dirPath)
    /\ NodeAt(call.dirPath).isDir
    /\ NodeAt(call.dirPath).readable

NoSectionBelowDepthLimit ==
    \A f \in ReturnedFiles : LevelsBelow(call.dirPath, f) <= cfg.Expand.MaxDepth

IsBinaryReference(m) ==
    /\ ~HasSuffix(m.path, <<"/">>)
    /\ Exists(m.path)
    /\ ~NodeAt(m.path).isDir
    /\ NodeAt(m.path).readable
    /\ isBinary(NodeAt(m.path).content)

\* the turn without the references to binary files, taken out from the
\* i-th match down to the first
RECURSIVE WithoutBinaryReferences(_, _, _)
WithoutBinaryReferences(content, matches, i) ==
    IF i = 0 THEN content
    ELSE WithoutBinaryReferences(
             IF IsBinaryReference(matches[i])
             THEN UpTo(content, matches[i].start) \o From(content, matches[i].end)
             ELSE content,
             matches, i - 1)

\* C10 (as claimed): a reference to a file whose content holds a zero byte is
\* replaced by empty text, gets no FileStat and causes no error, whatever
\* the extension of the file: the expansion is that of the turn with the
\* reference taken out.
C10_BinaryReferenceIsDropped ==
    LET matches == FindAllReferences(call.content, 0)
    IN  (epc = "expanded" /\ \E i \in 1..Len(matches) : IsBinaryReference(matches[i])) =>
            /\ \A i \in 1..Len(matches) :
                  IsBinaryReference(matches[i]) => matches[i].path \notin ReturnedFiles
            /\ res = ExpandReferences(
                         WithoutBinaryReferences(call.content, matches, Len(matches)),
                         call.turnNumber)

(***************************************************************************)
(* Claims about the content filter.                                        *)
(***************************************************************************)
\* the preserved prefixes the trimmed content starts with
PreservedPrefixes == {p \in fcfg.Header.Preserve : HasPrefix(TrimSpace(fcontent), p)}

\* C11 (as claimed): with filtering enabled, content whose trimmed text
\* starts with a Preserve prefix keeps that directive at the start of the
\* output, whichever of header stripping and comment stripping are on.
C11_PreservedDirectiveIsKept ==
    (fpc = "filtered" /\ fcfg.Enabled) =>
        \A p \in PreservedPrefixes : HasPrefix(TrimSpace(fout), p)

(***************************************************************************)
(* The grammar of session documents: a turn boundary is a line that is     *)
(* exactly  # [<digits>] Human  or  # [<digits>] AI ; the content of a     *)
(* turn is the trimmed text between its boundary line and the next one.    *)
(***************************************************************************)
IsBoundaryLine(line) ==
    /\ HasPrefix(line, <<"#", " ", "[">>)
    /\ DigitRunEnd(line, 3) > 3
    /\ From(line, DigitRunEnd(line, 3)) \in
           {<<"]", " ">> \o RoleHuman, <<"]", " ">> \o RoleAI}

\* the turns of a document by the grammar
GrammarTurns(content) ==
    LET lines == Split(content, "\n")
        bounds == {i \in 1..Len(lines) : IsBoundaryLine(lines[i])}
        nth(k) == CHOOSE i \in bounds : Cardinality({j \in bounds : j < i}) = k - 1
        next(i) == IF \E j \in bounds : j > i
                   THEN MinOf({j \in bounds : j > i}) ELSE Len(lines) + 1
    IN  [k \in 1..Cardinality(bounds) |->
            LET i == nth(k)
            IN  [Number |-> DecimalValue(SubSeq(lines[i], 4, DigitRunEnd(lines[i], 3))),
                 Role |-> From(lines[i], DigitRunEnd(lines[i], 3) + 2),
                 Content |-> TrimSpace(Join(SubSeq(lines, i + 1, next(i) - 1), <<"\n">>))]]

(***************************************************************************)
(* Claims about the chat run.                                              *)
(***************************************************************************)
\* what the run read has no turn boundary, no Human turn, or a last Human
\* turn without content
InvalidSession ==
    LET turns == GrammarTurns(chatContent)
        humans == {i \in 1..Len(turns) : turns[i].Role = RoleHuman}
    IN  \/ turns = <<>>
        \/ humans = {}
        \/ turns[MaxOf(humans)].Content = <<>>

\* C12 (as claimed): a run over a document without a turn boundary, without
\* a Human turn or with an empty last Human turn ends with an error and
\* never calls the model.
C12_InvalidSessionNeverReachesModel ==
    (chatPc \notin {"idle", "start", "read"} /\ InvalidSession) =>
        /\ chatPc = "failed"
        /\ chatErr # NoError
        /\ invocations = 0

\* the Human turns of what the run read whose expansion fails, and those
\* whose expansion inserts at least one file
FailingTurns ==
    LET turns == ParseAllTurns(chatContent).turns
        fails(e) == e.err # "nil"
    IN  {i \in 1..Len(turns) :
            /\ turns[i].Role = RoleHuman
            /\ fails(ExpandReferences(turns[i].Content, turns[i].Number))}

ExpandedTurns ==
    LET turns == ParseAllTurns(chatContent).turns
        inserts(e) == e.err = "nil" /\ e.stats # <<>>
    IN  {i \in 1..Len(turns) :
            /\ turns[i].Role = RoleHuman
            /\ inserts(ExpandReferences(turns[i].Content, turns[i].Number))}

\* the error of the first failing turn
FirstExpansionError ==
    LET turns == ParseAllTurns(chatContent).turns
        i == MinOf(FailingTurns)
    IN  ExpandReferences(turns[i].Content, turns[i].Number).err

C14_OnlyHeadingLinesStartTurns ==
    ppc = "parsed" =>
        /\ parseResult.err = (GrammarTurns(pdoc) = <<>>)
        /\ Len(parseResult.turns) = Len(GrammarTurns(pdoc))
        /\ \A i \in 1..Len(parseResult.turns) :
              /\ parseResult.turns[i].Number = GrammarTurns(pdoc)[i].Number
              /\ parseResult.turns[i].Role = GrammarTurns(pdoc)[i].Role

(***************************************************************************)
(* Claims about cancellation of the stream loop.                           *)
(***************************************************************************)
\* C15 (as claimed): once the context is cancelled while the loop runs, no
\* step of the loop hands a chunk to the callback, and the loop ends with
\* the cancellation outcome, whenever the cancellation arrives.
C15_NoChunkAfterCancellation ==
    [][(ctxDone /\ pc \in {"select", "recv"}) =>
          /\ pc' # "callback"
          /\ pc' = "close" => streamErr' = "context canceled"]_vars

(***************************************************************************)
(* Claims about the replacement of references.                             *)
(***************************************************************************)
\* what the expander produces for one token, given the number of its
\* first section
TokenResult(m, turnNumber, sectionNumber) ==
    LET forceRecursive == HasSuffix(m.path, RecursiveSuffix)
        path == IF forceRecursive
                THEN TrimSuffix(m.path, RecursiveSuffix) \o <<"/">>
                ELSE m.path
    IN  IF HasSuffix(path, <<"/">>)
        THEN expandDirectoryWithOptions(TrimSuffix(path, <<"/">>), turnNumber,
                 sectionNumber, cfg.Expand, cfg.Expand.Recursive \/ forceRecursive, 0)
        ELSE expandFile(path, turnNumber, sectionNumber)

\* the turn with every token, from the i-th on, replaced at its own
\* position by what the expander produces for it, and the text before,
\* between and after the tokens as it is
RECURSIVE PositionalExpansion(_, _, _, _, _)
PositionalExpansion(content, turnNumber, matches, i, sectionNumber) ==
    IF i > Len(matches)
    THEN From(content, IF matches = <<>> THEN 0 ELSE matches[Len(matches)].end)
    ELSE LET prevEnd == IF i = 1 THEN 0 ELSE matches[i - 1].end
             rest(r) == r.text \o PositionalExpansion(content, turnNumber, matches,
                                      i + 1, sectionNumber + Len(r.stats))
         IN  SubSeq(content, prevEnd + 1, matches[i].start)
                 \o rest(TokenResult(matches[i], turnNumber, sectionNumber))

\* C16 (as claimed): a successful expansion is the turn with each token
\* replaced at its own position by its sections; the text outside the
\* tokens and the text inserted for earlier tokens are as they were.
C16_TokensReplacedAtTheirPositions ==
    (epc = "expanded" /\ res.err = "nil") =>
        res.text = PositionalExpansion(call.content, call.turnNumber,
                       FindAllReferences(call.content, 0), 1, 1)

(***************************************************************************)
(* Claims about the inclusion rules.                                       *)
(***************************************************************************)
\* the files directly in the directory of the walk
Candidates == {n \in tree : ~n.isDir /\ DirOf(n.path) = call.dirPath}

\* an exclude glob matches the path or the name of the file, or a component
\* of its path is an excluded directory name
RejectedByExclude(path) ==
    \/ \E g \in cfg.Expand.Exclude.Patterns : Match(g, path) \/ Match(g, Base(path))
    \/ \E k \in 1..Len(Split(path, "/")) :
          Split(path, "/")[k] \in cfg.Expand.Exclude.Directories

\* the extension is an include extension, capitals and small letters alike,
\* or the name matches an include pattern
AcceptedByInclude(path) ==
    \/ /\ TrimPrefix(Ext(path), <<".">>) # <<>>
       /\ ToLower(TrimPrefix(Ext(path), <<".">>)) \in
              {ToLower(e) : e \in cfg.Expand.Include.Extensions}
    \/ \E g \in cfg.Expand.Include.Patterns : Match(g, Base(path))

\* the candidates that pass the rules and can be read as text
ExpectedFiles ==
    {n.path : n \in {m \in Candidates :
                        /\ ~RejectedByExclude(m.path)
                        /\ AcceptedByInclude(m.path)
                        /\ m.readable /\ ~isBinary(m.content)}}

HasZeroByte(content) == \E i \in 1..Len(content) : content[i] = NUL

\* the files directly in dir that the rules include
IncludedIn(dir) ==
    {n \in tree : /\ ~n.isDir /\ DirOf(n.path) = dir
                  /\ shouldIncludeFile(Base(n.path), n.path, cfg.Expand)}

\* a reference to a directory without subdirectories whose included files
\* are all binary
IsBinaryDirectoryReference(m) ==
    /\ HasSuffix(m.path, <<"/">>)
    /\ Exists(TrimSuffix(m.path, <<"/">>))
    /\ NodeAt(TrimSuffix(m.path, <<"/">>)).isDir
    /\ ReadDir(TrimSuffix(m.path, <<"/">>)) = IncludedIn(TrimSuffix(m.path, <<"/">>))
    /\ IncludedIn(TrimSuffix(m.path, <<"/">>)) # {}
    /\ \A n \in IncludedIn(TrimSuffix(m.path, <<"/">>)) :
          n.readable /\ HasZeroByte(n.content)

BinaryFiles ==
    {n.path : n \in {m \in tree : ~m.isDir /\ m.readable /\ HasZeroByte(m.content)}}

RECURSIVE StatOwners(_, _, _, _)
StatOwners(turnNumber, matches, i, sectionNumber) ==
    IF i > Len(matches) THEN <<>>
    ELSE LET own(r) == [k \in 1..Len(r.stats) |-> i]
                           \o StatOwners(turnNumber, matches, i + 1,
                                         sectionNumber + Len(r.stats))
         IN  own(TokenResult(matches[i], turnNumber, sectionNumber))

\* the heading the j-th section is to have: one # more than the nearest
\* heading line before its token, six at most, two without such a line;
\* the bracketed prefix of that line, or the turn number, then the number
\* of the section
ClaimedHeading(j) ==
    LET matches == FindAllReferences(call.content, 0)
        m == matches[StatOwners(call.turnNumber, matches, 1, 1)[j]]
        h == NearestHeadingLine(call.content, m.start)
        level == IF h.found THEN MinOf({hashCount(h.line) + 1, 6}) ELSE 2
        prefix == IF h.found /\ numberPrefix(h.line) # <<>>
                  THEN numberPrefix(h.line) ELSE Itoa(call.turnNumber)
    IN  Repeat("#", level) \o <<" ", "[">> \o prefix \o <<".">> \o Itoa(j)
            \o <<"]", " ">> \o res.stats[j].File \o <<"\n">>

\* the text has the heading, with no further # before it
HasHeading(s, heading) ==
    \E o \in Occurrences(s, heading) : o = 0 \/ s[o] # "#"

\* C19 (as claimed): every section of a successful expansion has the
\* heading its markdown context asks for.
C19_HeadingFollowsContext ==
    (epc = "expanded" /\ res.err = "nil") =>
        \A j \in 1..Len(res.stats) : HasHeading(res.text, ClaimedHeading(j))

(***************************************************************************)
(* Claims about section numbers.                                           *)
(***************************************************************************)
\* the heading of the j-th section of the call
NumberedHeading(j) ==
    <<"#", "#", " ", "[">> \o Itoa(call.turnNumber) \o <<".">> \o Itoa(j)
        \o <<"]", " ">> \o res.stats[j].File \o <<"\n">>

\* the offsets of the section headings of the call
SectionHeadings ==
    Occurrences(res.text, <<"#", "#", " ", "[">> \o Itoa(call.turnNumber) \o <<".">>)

\* C20: the sections of a successful expansion are numbered 1, 2, ..., k
\* in the order of the k returned FileStats, each number once, across
\* files, directories and subdirectories; a skipped file takes no number.
C20_SectionNumbersAreConsecutive ==
    (epc = "expanded" /\ res.err = "nil") =>
        /\ Cardinality(SectionHeadings) = Len(res.stats)
        /\ \A j \in 1..Len(res.stats) :
              Cardinality(Occurrences(res.text, NumberedHeading(j))) = 1
        /\ \A j \in 1..(Len(res.stats) - 1) :
              Index(res.text, NumberedHeading(j)) < Index(res.text, NumberedHeading(j + 1))

\* sections of a directory and of a subdirectory, numbered on after a
\* binary file of the directory was skipped
C20_Witness ==
    /\ epc = "expanded" /\ res.err = "nil"
    /\ Len(res.stats) >= 4
    /\ \E j \in 1..Len(res.stats) :
          LevelsBelow(<<"p", "r", "o", "j">>, res.stats[j].File) > 0
    /\ \E n \in IncludedIn(<<"p", "r", "o", "j">>) : n.path \in BinaryFiles

(***************************************************************************)
(* Claims about the two passes of the content filter.                      *)
(***************************************************************************)
\* the offsets at or after offset from where sub occurs in s
OccurrencesFrom(s, sub, from) == {i \in Occurrences(s, sub) : i >= from}

\* the header stripping the claim describes: a preserved start keeps the
\* content; otherwise the first Remove pair whose start opens the trimmed
\* content is removed through the first occurrence of its end after the
\* start, the leading blank space is trimmed, and the same is done to what
\* remains
RECURSIVE ClaimedStripHeader(_, _)
ClaimedStripHeader(content, hcfg) ==
    LET trimmed == TrimSpace(content)
        lead == Len(content) - Len(TrimLeftSpace(content))
        opening == {k \in 1..Len(hcfg.Remove) : HasPrefix(trimmed, hcfg.Remove[k].Start)}
        pair == hcfg.Remove[MinOf(opening)]
        ends == OccurrencesFrom(content, pair.End, lead + Len(pair.Start))
    IN  IF \E p \in hcfg.Preserve : HasPrefix(trimmed, p) THEN content
        ELSE IF opening = {} THEN content
        ELSE IF ends = {} THEN content
        ELSE ClaimedStripHeader(
                 TrimLeft(From(content, MinOf(ends) + Len(pair.End)),
                          {" ", "\t", "\n", "\r"}), hcfg)

\* the run applied stripHeader alone
OnlyStripHeader ==
    fpc = "filtered" /\ fcfg.Enabled /\ fcfg.StripHeaders /\ ~fcfg.StripAllComments

\* C21 (as claimed): stripHeader removes each leading header block through
\* the first occurrence of its pair's end after its start, trims the
\* leading blank space and repeats while a header pattern follows, for
\* every configured pair, pairs with equal start and end included.
C21_HeaderBlocksAreRemoved ==
    OnlyStripHeader => fout = ClaimedStripHeader(fcontent, fcfg.Header)

\* the block comment delimiters of stripAllComments
BlockDelimiters ==
    { [Start |-> <<"/", "*">>, End |-> <<"*", "/">>],
      [Start |-> <<"<", "!", "-", "-">>, End |-> <<"-", "-", ">">>],
      [Start |-> <<"\"", "\"", "\"">>, End |-> <<"\"", "\"", "\"">>],
      [Start |-> <<"'", "'", "'">>, End |-> <<"'", "'", "'">>] }

\* the lines the claim keeps, from line i on: a line is dropped when it is
\* a single-line comment, when it opens a block comment, and when it lies
\* in an open block; a block ends on the line that holds its terminator,
\* which may be the line that opens it
RECURSIVE ClaimedKeptLines(_, _, _, _)
ClaimedKeptLines(lines, i, inBlock, blockEnd) ==
    IF i > Len(lines) THEN <<>>
    ELSE LET line == lines[i]
             trimmed == TrimSpace(line)
             opened == {d \in BlockDelimiters : HasPrefix(trimmed, d.Start)}
             d == CHOOSE x \in opened : TRUE
         IN  IF inBlock
             THEN ClaimedKeptLines(lines, i + 1, ~Contains(line, blockEnd), blockEnd)
             ELSE IF opened # {}
             THEN ClaimedKeptLines(lines, i + 1,
                      ~Contains(From(trimmed, Len(d.Start)), d.End), d.End)
             ELSE IF \/ HasPrefix(trimmed, <<"/", "/">>)
                     \/ HasPrefix(trimmed, <<"#">>)
                     \/ HasPrefix(trimmed, <<"-", "-">>)
             THEN ClaimedKeptLines(lines, i + 1, FALSE, blockEnd)
             ELSE <<line>> \o ClaimedKeptLines(lines, i + 1, FALSE, blockEnd)

\* the run applied stripAllComments alone
OnlyStripAllComments ==
    fpc = "filtered" /\ fcfg.Enabled /\ ~fcfg.StripHeaders /\ fcfg.StripAllComments

\* C22 (as claimed): stripAllComments drops exactly the single-line
\* comment lines and the lines of block comments, a block ending on the
\* line that holds its terminator even when that is the line that opens
\* it; the other lines are kept in order (blank runs collapsed, the whole
\* trimmed).
C22_OnlyCommentLinesAreRemoved ==
    OnlyStripAllComments =>
        fout = TrimSpace(collapseBlankLines(
                   Join(ClaimedKeptLines(Split(fcontent, "\n"), 1, FALSE, <<>>),
                        <<"\n">>)))

(***************************************************************************)
(* Claims about the end of the streaming phase.                            *)
(***************************************************************************)
\* the callback returned an error for some chunk
CallbackFailed == streamErr = "write failed"

\* C23 (as claimed): after the callback failed on a chunk the loop delivers
\* no further chunk, Close still closes a fence that was opened and appends
\* the next Human boundary, and the run returns the callback's failure,
\* neither success nor a cancellation.
C23_CallbackFailureEndsTheRun ==
    CallbackFailed =>
        /\ pc \in {"close", "done", "exited"}
        /\ pc = "done" =>
              /\ result = "write failed"
              /\ sw.headerWritten =>
                    HasSuffix(file, FenceEnd \o NextHumanHeader(sw.turnNumber + 1))

\* C25: while a run streams, every step leaves the bytes of the document
\* in place and at most adds bytes at its end, also after an editor added
\* a character between two writes of the run.
C25_StreamWriterOnlyAppends ==
    [][HasPrefix(file', file)]_vars

\* the run ended, and it wrote its chunk and the closing lines behind a
\* character the editor added during the run
C25_Witness ==
    /\ pc = "done"
    /\ sw.contentWritten
    /\ \E i \in Occurrences(file, EditorMark) :
          /\ i >= Len(base)
          /\ HasSuffix(From(file, i + 1), FenceEnd \o NextHumanHeader(sw.turnNumber + 1))
          /\ Len(From(file, i + 1)) > Len(FenceEnd \o NextHumanHeader(sw.turnNumber + 1))

\* C26 (as claimed): a run that ended, in whatever way, without having
\* written a chunk leaves the document byte for byte as it was when the
\* stream started.
C26_NothingWrittenWithoutContent ==
    (pc = "done" /\ ~sw.contentWritten) => file = base

(***************************************************************************)
(* Claims about the document a chat run writes before it invokes the model.*)
(***************************************************************************)
\* the turns of the document the run read
ReadTurns == ParseAllTurns(chatContent).turns

\* the run wrote or kept session.md and is about to invoke the model, or did
BeforeInvocation == chatPc \in {"written", "invoked"}

\* the heading text of a turn
HeadingText(turn) ==
    <<"#", " ", "[">> \o Itoa(turn.Number) \o <<"]", " ">> \o turn.Role

\* C24 (as claimed): when a reference of the last Human turn was expanded,
\* the document on disk before the invocation holds that turn's heading
\* followed by the expanded content, and its other turns are unchanged.
C24_ExpandedTurnIsPersisted ==
    BeforeInvocation =>
        LET k == lastHumanIndex(ReadTurns)
            persisted(exp) ==
                Len(exp.stats) > 0 =>
                    /\ Contains(sessionMd.text,
                           HeadingText(ReadTurns[k]) \o <<"\n", "\n">>
                               \o TrimSpace(exp.text))
                    /\ LET now == ParseAllTurns(sessionMd.text).turns
                       IN  /\ Len(now) = Len(ReadTurns)
                           /\ \A i \in 1..Len(now) : i # k => now[i] = ReadTurns[i]
        IN  persisted(ExpandReferences(ReadTurns[k].Content, ReadTurns[k].Number))

(***************************************************************************)
(* Claims about the turns of a session over several runs.                  *)
(***************************************************************************)
\* the turns of session.md
SessionTurns == ParseAllTurns(sdoc).turns

\* C27: from the document of init on, through edits of the last Human turn
\* and chat runs that stream a response (complete or cancelled), the turns
\* are numbered 1, 2, ..., n, Human and AI alternate from Human on, each
\* run adds one AI turn and one Human turn, and after a run the last turn
\* is an empty Human turn.
C27_TurnsAreNumberedConsecutively ==
    slast # "idle" =>
        LET numbered(parsed) ==
                /\ ~parsed.err
                /\ Len(parsed.turns) = 2 * sruns + 1
                /\ \A i \in 1..Len(parsed.turns) :
                      /\ parsed.turns[i].Number = i
                      /\ parsed.turns[i].Role = IF i % 2 = 1 THEN RoleHuman ELSE RoleAI
                /\ slast \in {"complete", "interrupted"} =>
                      parsed.turns[Len(parsed.turns)].Content = <<>>
        IN  numbered(ParseAllTurns(sdoc))

\* two runs after init, one cancelled and one complete, left five turns
C27_Witness ==
    /\ sruns = 2
    /\ slast = "complete"
    /\ Len(SessionTurns) = 5
    /\ Contains(sdoc, <<"[", "I", "n", "t", "e", "r", "r", "u", "p", "t", "e", "d">>)

(***************************************************************************)
(* Claims about new input.                                                 *)
(***************************************************************************)
\* the document the run read has turns and no new human input: its final
\* turn is an AI turn, or its final Human turn is empty
NoNewInput ==
    /\ chatPc # "start"
    /\ chatPc # "idle"
    /\ LET none(parsed) ==
               /\ ~parsed.err
               /\ \/ parsed.turns[Len(parsed.turns)].Role = RoleAI
                  \/ /\ lastHumanIndex(parsed.turns) # 0
                     /\ parsed.turns[lastHumanIndex(parsed.turns)].Content = <<>>
       IN  none(ParseAllTurns(chatContent))

\* C28 (as claimed): a run on a document without new human input ends with
\* an error and does not invoke the model.
C28_NoInvocationWithoutNewInput ==
    NoNewInput => (invocations = 0 /\ chatPc \in {"read", "failed"})

(***************************************************************************)
(* Claims about expanding again.                                           *)
(***************************************************************************)
\* C29 (as claimed): expanding the text of a successful expansion again
\* returns it unchanged, with no FileStat and no error.
C29_ExpansionIsStable ==
    (epc = "expanded" /\ res.err = "nil") =>
        LET again(r) == r.err = "nil" /\ r.stats = <<>> /\ r.text = res.text
        IN  again(ExpandReferences(res.text, call.turnNumber))

(***************************************************************************)
(* Claims about the retry of an invocation.                                *)
(***************************************************************************)
\* C30 (as claimed): after a profile-related failure of the first request
\* there is exactly one further call, never a third, and that call finds
\* no cached entry under the key ensureProfile reads for the model, so it
\* does not send the cached ARN of the failed request again; for models
\* with custom profiles and with system profiles alike.
C30_RetryDropsCachedProfile ==
    /\ calls <= 2
    /\ Len(attempts) <= 2
    /\ (Len(attempts) >= 1 /\ attempts[1].outcome = "profile" /\ rpc # "call")
           => calls = 2
    /\ Len(lookups) = 2 => ~lookups[2].found

====
